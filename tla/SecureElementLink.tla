------------------------- MODULE SecureElementLink -------------------------
(***************************************************************************)
(* What the keystore may rely on when it talks to the secure element:      *)
(* commands are handed over one at a time, the element executes each of    *)
(* them at most once, whole, and only while its caller is waiting, and a   *)
(* command that is reported as answered was executed.  "failed" and        *)
(* "noreply" (the call reports success, but what it hands back is not the  *)
(* reply) say nothing about whether the command was executed.              *)
(***************************************************************************)
EXTENDS Naturals, Sequences, SequencesExt

VARIABLES executed,     \* the commands the element has executed, in order
          outcome,      \* what was reported for each command handed over
          trusted       \* no exchange has ended as a success that it was not

linkVars == <<executed, outcome, trusted>>

Verdicts == {"answered", "failed", "noreply"}

\* The command whose caller is waiting, if any.
Waiting == Len(outcome) > 0 /\ Last(outcome) = "none"

LinkInit ==
    /\ executed = <<>>
    /\ outcome = <<>>
    /\ trusted = TRUE

\* A caller hands the next command over.
Submit ==
    /\ ~Waiting
    /\ outcome' = Append(outcome, "none")
    /\ UNCHANGED executed

\* The element executes the command under way.
Execute ==
    /\ Waiting
    /\ ~Contains(executed, Len(outcome))
    /\ executed' = Append(executed, Len(outcome))
    /\ UNCHANGED outcome

\* The caller learns the outcome.
Report ==
    /\ Waiting
    /\ \E v \in Verdicts :
          /\ v = "answered" => Contains(executed, Len(outcome))
          /\ outcome' = [outcome EXCEPT ![Len(outcome)] = v]
    /\ UNCHANGED executed

\* Once trust is lost nothing is promised any more.
LinkNext == (trusted' /\ (Submit \/ Execute \/ Report)) \/ ~trusted'

LinkSpec == LinkInit /\ [][LinkNext]_linkVars
=============================================================================
