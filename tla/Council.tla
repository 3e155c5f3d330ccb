------------------------------- MODULE Council -------------------------------
(***************************************************************************)
(* internal/councilflow: a council reviews a technical specification in    *)
(* rounds.  In each a set of personas is generated and approved, reviewers *)
(* work in parallel, and a judge for each review edits the text the next   *)
(* round starts from.  Each round has a directory in which personas,       *)
(* reviews and the judge's consolidation are kept, for a command that is   *)
(* run again to resume from.                                               *)
(*                                                                         *)
(* A text is the set of the changes made to it: the marks of the author's  *)
(* edits and of the reviewers whose findings a judge applied.  A file is   *)
(* the set of its contents: empty, or of one element.  Files are written   *)
(* with os.WriteFile, which truncates before it writes: cut short between  *)
(* the two, by a death or an error, it leaves a file that does not parse,  *)
(* which is as good as none.                                               *)
(*                                                                         *)
(* One command runs at a time and the author edits between commands; what  *)
(* goes wrong when they do not is in RunLifecycle.  Verdicts, prompts,     *)
(* version files and the changelog are written but not read by a command   *)
(* and are left out, and so are nudges, which no command asks for.         *)
(***************************************************************************)
EXTENDS Naturals, FiniteSets

CONSTANTS
  Fixed,     \* personas of every round: the fixed and the custom ones
  Dynamic,   \* personas that may be generated for a round
  Edits,     \* the author's edits
  Modes,     \* review modes
  Rounds,    \* CouncilConfig.Rounds
  MaxCommands, \* bound: councils started
  MaxFaults  \* bound: commands that die or fail, reviewers and judges that fail

VARIABLES
  spec,     \* technical-spec.md
  dynamic,  \* [round] dynamic-personas.json
  hash,     \* [round] spec-hash.txt: <<text, mode>>
  reviews,  \* [round][persona] review-<persona>.json
  judged,   \* [round] consolidation.json
  council,  \* the command that runs
  commands, faults,
  kept      \* history: [round] the text and mode last reviewed, and by whom,
            \* as long as neither that review nor the hash is cut short

councilVars == <<spec, dynamic, hash, reviews, judged, council, commands, faults, kept>>

Personas == Fixed \cup Dynamic
AllRounds == 1 .. Rounds
Severities == {"none", "minor", "major"}

Idle == [pc |-> "idle", round |-> 0, text |-> {}, mode |-> "none", force |-> FALSE,
         skipJudge |-> FALSE, asked |-> {}, pending |-> {}, got |-> {}, final |-> {}]

Init ==
  /\ spec = {}
  /\ dynamic = [r \in AllRounds |-> {}]
  /\ hash = [r \in AllRounds |-> {}]
  /\ reviews = [r \in AllRounds |-> [p \in Personas |-> {}]]
  /\ judged = [r \in AllRounds |-> {}]
  /\ council = Idle
  /\ commands = 0 /\ faults = 0
  /\ kept = [r \in AllRounds |-> [key |-> <<{}, "none">>, by |-> {}]]

At(pc) == council.pc = pc
Key == <<council.text, council.mode>>

Edit ==
  /\ At("idle")
  /\ \E e \in Edits \ spec : spec' = spec \cup {e}
  /\ UNCHANGED <<dynamic, hash, reviews, judged, council, commands, faults, kept>>

(* RunCouncil.  The engine has read the text and lets the reviewers read   *)
(* it from its file.                                                       *)
Start ==
  /\ At("idle")
  /\ commands < MaxCommands
  /\ commands' = commands + 1
  /\ \E m \in Modes, f, s \in BOOLEAN :
       council' = [Idle EXCEPT !.pc = "personas", !.round = 1, !.text = spec, !.mode = m,
                               !.force = f, !.skipJudge = s]
  /\ UNCHANGED <<spec, dynamic, hash, reviews, judged, faults, kept>>

(* buildPersonaSet: GeneratePersonas reuses those of the round whatever    *)
(* the text is now.  The user may then remove personas, but not all.       *)
AskPersonas(generated) ==
  /\ dynamic' = [dynamic EXCEPT ![council.round] = {generated}]
  /\ \E ps \in SUBSET (Fixed \cup generated) \ {{}} :
       council' = [council EXCEPT !.pc = "hash", !.asked = ps]
  /\ UNCHANGED <<spec, hash, reviews, judged, commands, faults, kept>>

GeneratePersonas ==
  /\ At("personas")
  /\ dynamic[council.round] = {}
  /\ \E generated \in SUBSET Dynamic \ {{}} : AskPersonas(generated)

CachedPersonas ==
  /\ At("personas")
  /\ \E generated \in dynamic[council.round] : AskPersonas(generated)

(* executePersonaStage *)
PersonaStage == GeneratePersonas \/ CachedPersonas

(* matchesSpecHash *)
CacheValid == ~council.force /\ hash[council.round] = {Key}

(* loadCachedReview: who needs not be asked. *)
Cached == IF CacheValid THEN {p \in council.asked : reviews[council.round][p] # {}} ELSE {}

Asking ==
  /\ kept' = [kept EXCEPT ![council.round] =
                IF @.key = Key THEN @ ELSE [key |-> Key, by |-> {}]]
  /\ council' = [council EXCEPT !.pc = "review", !.pending = council.asked \ Cached,
                                !.got = UNION {reviews[council.round][p] : p \in Cached}]
  /\ UNCHANGED <<spec, dynamic, reviews, judged, commands, faults>>

RunRoundUnhashed ==
  /\ At("hash")
  /\ UNCHANGED hash
  /\ Asking

(* RunRound: the hash is replaced before any review is.                    *)
RunRound ==
  /\ At("hash")
  /\ hash' = [hash EXCEPT ![council.round] = {Key}]
  /\ Asking

(* runSingleReview, and its result taken from the channel and stored. The  *)
(* reviewer reads the file.                                                *)
Reviewed(p) ==
  /\ At("review") /\ p \in council.pending
  /\ \E s \in Severities :
       LET review == [by |-> p, of |-> spec, finding |-> s] IN
         /\ reviews' = [reviews EXCEPT ![council.round][p] = {review}]
         /\ council' = [council EXCEPT !.pending = @ \ {p}, !.got = @ \cup {review}]
  /\ kept' = [kept EXCEPT ![council.round].by = @ \cup {p}]
  /\ UNCHANGED <<spec, dynamic, hash, judged, commands, faults>>

(* A reviewer that fails is skipped; what it stored before stays, as only  *)
(* the write of a review opens the file.                                   *)
ReviewerFails(p) ==
  /\ At("review") /\ p \in council.pending
  /\ faults < MaxFaults
  /\ faults' = faults + 1
  /\ council' = [council EXCEPT !.pending = @ \ {p}]
  /\ UNCHANGED <<spec, dynamic, hash, reviews, judged, commands, kept>>

(* The end of a round, with the text for the next if there is a new one.   *)
EndRound(texts) ==
  council' = [council EXCEPT
    !.pc = IF council.round = Rounds THEN "finish" ELSE "personas",
    !.round = IF council.round = Rounds THEN @ ELSE @ + 1,
    !.text = IF texts = {} THEN @ ELSE CHOOSE t \in texts : TRUE,
    !.final = IF texts = {} THEN @ ELSE texts,
    !.asked = {}, !.got = {}]

(* executeReviewStage, executeRound: no review at all is an error.         *)
EndReviews ==
  /\ At("review") /\ council.pending = {}
  /\ IF council.got = {} THEN council' = Idle
     ELSE IF council.skipJudge \/ \A g \in council.got : g.finding = "none" THEN EndRound({})
     ELSE council' = [council EXCEPT !.pc = "judge"]
  /\ UNCHANGED <<spec, dynamic, hash, reviews, judged, commands, faults, kept>>

(* loadCachedConsolidation: one that applied and rejected nothing is none. *)
CachedJudgement ==
  IF council.force THEN {} ELSE {j \in judged[council.round] : j.decided # {}}

(* loadCachedJudge, which does not look at the text that was judged.       *)
JudgeCached ==
  /\ At("judge")
  /\ CachedJudgement # {}
  /\ EndRound({j.text : j \in CachedJudgement})
  /\ UNCHANGED <<spec, dynamic, hash, reviews, judged, commands, faults, kept>>

(* filterJudgeableReviews: those with more than minor findings. *)
Judgeable == {g.by : g \in {h \in council.got : h.finding = "major"}}

(* RunJudge: the reviews whose judge does not fail are rejected, applied,  *)
(* or edit what an edit before has changed and cannot be reconciled.       *)
Judge ==
  /\ At("judge")
  /\ CachedJudgement = {}
  /\ \E heard \in SUBSET Judgeable :
     \E decided \in SUBSET heard :
     \E applied \in SUBSET decided :
       LET failures == Cardinality(Judgeable \ heard)
           text == council.text \cup applied
       IN /\ faults + failures <= MaxFaults
          /\ faults' = faults + failures
          /\ judged' = [judged EXCEPT ![council.round] =
                          {[text |-> text, heard |-> heard, decided |-> decided]}]
          /\ EndRound({text})
  /\ UNCHANGED <<spec, dynamic, hash, reviews, commands, kept>>

(* executeJudgeStage *)
JudgeStage == JudgeCached \/ Judge

(* CouncilReviewTechnicalSpec writes the final text, if there is one. *)
Finish ==
  /\ At("finish")
  /\ spec' = IF council.final = {} THEN spec ELSE CHOOSE t \in council.final : TRUE
  /\ council' = Idle
  /\ UNCHANGED <<dynamic, hash, reviews, judged, commands, faults, kept>>

(* The command dies or is interrupted, the persona generator fails, or the *)
(* user quits at the approval.                                             *)
Abort ==
  /\ ~At("idle")
  /\ faults < MaxFaults
  /\ faults' = faults + 1
  /\ council' = Idle
  /\ UNCHANGED <<spec, dynamic, hash, reviews, judged, commands, kept>>

(* The write of spec-hash.txt is cut short, and with it the command.       *)
HashCut ==
  /\ At("hash")
  /\ faults < MaxFaults
  /\ faults' = faults + 1
  /\ hash' = [hash EXCEPT ![council.round] = {}]
  /\ kept' = [kept EXCEPT ![council.round].by = {}]
  /\ council' = Idle
  /\ UNCHANGED <<spec, dynamic, reviews, judged, commands>>

(* So is that of a review: by a death, or by an error, which is skipped.   *)
ReviewCut(p) ==
  /\ At("review") /\ p \in council.pending
  /\ faults < MaxFaults
  /\ faults' = faults + 1
  /\ reviews' = [reviews EXCEPT ![council.round][p] = {}]
  /\ kept' = [kept EXCEPT ![council.round].by = @ \ {p}]
  /\ council' \in {Idle, [council EXCEPT !.pending = @ \ {p}]}
  /\ UNCHANGED <<spec, dynamic, hash, judged, commands>>

(* So is that of the consolidation.                                        *)
JudgementCut ==
  /\ At("judge")
  /\ CachedJudgement = {}
  /\ faults < MaxFaults
  /\ faults' = faults + 1
  /\ judged' = [judged EXCEPT ![council.round] = {}]
  /\ council' = Idle
  /\ UNCHANGED <<spec, dynamic, hash, reviews, commands, kept>>

(* Personas are only written where there were none: that cut is an Abort.  *)
Cut == HashCut \/ JudgementCut \/ \E p \in Personas : ReviewCut(p)

Work == \/ PersonaStage \/ RunRound
        \/ \E p \in Personas : Reviewed(p) \/ ReviewerFails(p)
        \/ EndReviews \/ JudgeStage \/ Finish

Next == Edit \/ Start \/ Abort \/ Cut \/ Work

Spec == Init /\ [][Next]_councilVars

-----------------------------------------------------------------------------
Texts == SUBSET (Edits \cup Personas)
Reviews == [by : Personas, of : Texts, finding : Severities]
AtMostOne(S) == {{}} \cup {{x} : x \in S}

TypeOK ==
  /\ spec \in Texts
  /\ \A r \in AllRounds :
       /\ dynamic[r] \in AtMostOne(SUBSET Dynamic)
       /\ hash[r] \in AtMostOne(Texts \X Modes)
       /\ \A p \in Personas : \A v \in reviews[r][p] : v \in Reviews /\ v.by = p
       /\ Cardinality(judged[r]) <= 1
       /\ \A j \in judged[r] : j.text \in Texts /\ j.decided \subseteq j.heard
  /\ council.text \in Texts /\ council.pending \subseteq council.asked
  /\ \A g \in council.got : g \in Reviews /\ g.by \in council.asked

(* "re-running resumes from where it left off"                             *)
(* (docs/specs/council-review-pipeline-spec.md:68): wherever a command     *)
(* ended, the next one over the same text in the same mode asks no persona *)
(* again that has stored a review of it, in any of its rounds, unless the  *)
(* write of that review or of the round's hash was cut short since.        *)
ResumeKeepsWork ==
  At("review") /\ ~council.force =>
    \A p \in council.pending : kept[council.round].key = Key => p \notin kept[council.round].by

(* "A review artifact is cache-eligible only after it is fully written to  *)
(* a temporary file and atomically renamed into place"                     *)
(* (docs/specs/council-review-pipeline-spec.md:123): what a round has      *)
(* stored for its cache is replaced but never lost.  Not so: runner.go:56  *)
(* and 319 truncate the file in place.                                     *)
StoredStays ==
  [][\A r \in AllRounds :
       /\ hash[r] # {} => hash'[r] # {}
       /\ \A p \in Personas : reviews[r][p] # {} => reviews'[r][p] # {}]_councilVars

(* "spec-hash.txt MUST match the SHA-256 of the spec bytes that were       *)
(* reviewed" (docs/specs/council-review-pipeline-spec.md:120): the reviews *)
(* a round counts are reviews of the text of that round.                   *)
ReviewsAreOfTheText == \A g \in council.got : g.of = council.text

(* "spec-hash-based caching for both reviews and judge consolidation"      *)
(* (docs/plans/done/council-review-pipeline.md:501): the text the council  *)
(* is about to write has all that the text it was given has.               *)
CouncilKeepsTheText == \A t \in council.final : spec \subseteq t

(* "only the reviewers/judges that failed or timed out will re-execute"    *)
(* (docs/plans/done/council-review-pipeline.md:367): a judgement from the  *)
(* cache has heard all the reviews with more than minor findings.          *)
CachedHeardAll ==
  At("judge") =>
    \A j \in CachedJudgement : \A g \in council.got : g.finding = "major" => g.by \in j.heard
=============================================================================
