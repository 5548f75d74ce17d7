--------------------------- MODULE ClipProduction ---------------------------
(***************************************************************************)
(* What the pipeline promises of a stream job, without its workers, queue, *)
(* storage and requests: clips are chosen of candidates and candidates     *)
(* proposed from a transcript; that is done once, and once more for every  *)
(* loss (an attempt or a request that dies) at most; rendering is asked    *)
(* for what has been chosen only; that a job is done or has failed is      *)
(* taken back by a cancel, or after a loss; and what is deleted is         *)
(* forgotten for good.  Pipeline implements it.                            *)
(***************************************************************************)
EXTENDS Naturals, FiniteSets

CONSTANTS Jobs, Windows, MaxClips

VARIABLES
  report,     \* [Jobs]: "none", "underway", "done", "failed", "cancelled", "forgotten"
  scripted,   \* [Jobs]: is there a transcript?
  proposed,   \* [Jobs]: candidates, each with the number of its proposal
  chosen,     \* [Jobs]: clips, each a candidate with the number of its choice
  rendering,  \* [Jobs]: candidates whose rendering has been asked for
  lost        \* attempts and requests lost so far

vars == <<report, scripted, proposed, chosen, rendering, lost>>

Becomes(j, r) == report' = [report EXCEPT ![j] = r]
Known(j) == report[j] \notin {"none", "forgotten"}

(* Its outcome is still open.  A stage that is under way does not see that  *)
(* the job is cancelled.                                                    *)
Open(j) == Known(j) /\ (report[j] \in {"underway", "cancelled"} \/ lost > 0)

(* How often there was something proposed, or chosen.                       *)
Times(numbered) == Cardinality({n[2] : n \in numbered})
OnceMore(numbered, some) == numbered \cup (some \X {Cardinality(numbered)})

Init ==
  /\ report = [j \in Jobs |-> "none"]
  /\ scripted = [j \in Jobs |-> FALSE]
  /\ proposed = [j \in Jobs |-> {}]
  /\ chosen = [j \in Jobs |-> {}]
  /\ rendering = [j \in Jobs |-> {}]
  /\ lost = 0

Submit(j) ==
  /\ report[j] = "none"
  /\ Becomes(j, "underway")
  /\ UNCHANGED <<scripted, proposed, chosen, rendering, lost>>

Cancel(j) ==
  /\ Known(j)
  /\ Becomes(j, "cancelled")
  /\ UNCHANGED <<scripted, proposed, chosen, rendering, lost>>

Proceed(j) ==
  /\ Open(j)
  /\ Becomes(j, "underway") \/ Becomes(j, "failed")
  /\ UNCHANGED <<scripted, proposed, chosen, rendering, lost>>

Transcribe(j) ==
  /\ Open(j)
  /\ ~scripted[j]
  /\ Becomes(j, "underway")
  /\ scripted' = [scripted EXCEPT ![j] = TRUE]
  /\ UNCHANGED <<proposed, chosen, rendering, lost>>

Propose(j) ==
  /\ Open(j)
  /\ scripted[j]
  /\ Times(proposed[j]) <= lost
  /\ Becomes(j, "underway")
  /\ \E windows \in SUBSET Windows \ {{}} :
       proposed' = [proposed EXCEPT ![j] = OnceMore(@, windows)]
  /\ UNCHANGED <<scripted, chosen, rendering, lost>>

Choose(j) ==
  /\ Open(j)
  /\ Times(chosen[j]) <= lost
  /\ Becomes(j, "done")
  /\ \E best \in SUBSET proposed[j] :
       /\ Cardinality(best) <= MaxClips
       /\ \A c, d \in best : c[1] = d[1] => c = d
       /\ chosen' = [chosen EXCEPT ![j] = OnceMore(@, best)]
  /\ UNCHANGED <<scripted, proposed, rendering, lost>>

Render(j) ==
  /\ Known(j)
  /\ \E clip \in chosen[j] : rendering' = [rendering EXCEPT ![j] = @ \cup {clip[1]}]
  /\ UNCHANGED <<report, scripted, proposed, chosen, lost>>

Forget(j) ==
  /\ Known(j)
  /\ Becomes(j, "forgotten")
  /\ scripted' = [scripted EXCEPT ![j] = FALSE]
  /\ proposed' = [proposed EXCEPT ![j] = {}]
  /\ chosen' = [chosen EXCEPT ![j] = {}]
  /\ rendering' = [rendering EXCEPT ![j] = {}]
  /\ UNCHANGED lost

Lose ==
  /\ lost' = lost + 1
  /\ \/ UNCHANGED report
     \/ \E j \in Jobs : Known(j) /\ Becomes(j, "failed")
  /\ UNCHANGED <<scripted, proposed, chosen, rendering>>

Next ==
  \/ Lose
  \/ \E j \in Jobs : \/ Submit(j) \/ Cancel(j) \/ Proceed(j) \/ Forget(j)
                     \/ Transcribe(j) \/ Propose(j) \/ Choose(j) \/ Render(j)

Spec == Init /\ [][Next]_vars
=============================================================================
