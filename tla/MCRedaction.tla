----------------------------- MODULE MCRedaction -----------------------------
(* Model-checking definitions for the redaction of personal data: the sweep
   over a text, the placeholders, and the file that keeps them. The three
   share no state: in a behaviour one of them runs, and the others stay in one
   state they can begin in. *)
EXTENDS MCPseudonymizer, Overlaps, FileStore

VARIABLE unit

allVars == <<vars, overlapVars, fileVars, unit>>

MCInit ==
    /\ unit \in {"pseudonymizer", "overlaps", "files"}
    /\ Init /\ OverlapsInit /\ FileInit
    /\ unit # "pseudonymizer" => table

\* A step of one part.
Pseudonymize(A) == unit = "pseudonymizer" /\ A /\ UNCHANGED <<overlapVars, fileVars, unit>>
Sweep(A)        == unit = "overlaps" /\ A /\ UNCHANGED <<vars, fileVars, unit>>
Keep(A)         == unit = "files" /\ A /\ UNCHANGED <<vars, overlapVars, unit>>

MCNext == Pseudonymize(Next) \/ Sweep(OverlapsNext) \/ Keep(FileNext)

\* The fairness of FairSpec and of FileFairSpec.
MCFairness ==
    /\ \A p \in Process : WF_allVars(Pseudonymize(Step(p)))
    /\ \A t \in Daemon : WF_allVars(Keep(Flush(t)))
    /\ \A t \in Thread : WF_allVars(Keep(FlushStep(t)))

MCFairSpec == MCInit /\ [][MCNext]_allVars /\ MCFairness

(* A token, an assignment of which the right side is the value, and two of
   the patterns that have the same priority. *)
MCPatterns == <<[priority |-> 93, group |-> FALSE], [priority |-> 80, group |-> TRUE],
                [priority |-> 76, group |-> FALSE], [priority |-> 76, group |-> FALSE]>>

\* The types of the three parts; what the sweep accepts does not overlap.
RedactionTypeOK == TypeOK /\ OverlapsTypeOK /\ FileTypeOK
=============================================================================
