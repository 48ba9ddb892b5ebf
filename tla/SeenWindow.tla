----------------------------- MODULE SeenWindow -----------------------------
(***************************************************************************)
(* What the genuine-reorder observer (utility/reseq.go) remembers of each  *)
(* flow: the latest Size distinct sequence numbers, oldest first.  A       *)
(* number that is remembered is a retransmission.                          *)
(***************************************************************************)
EXTENDS Sequences, Naturals

CONSTANTS
    Keys,   \* flows
    Seqs,   \* sequence numbers
    Size    \* numbers remembered of a flow

VARIABLES
    windows,  \* flow -> the numbers remembered, for the flows known
    again     \* the last packet was a retransmission

seenVars == <<windows, again>>

Known == DOMAIN windows

\* Window w after seq: a repeated number leaves it as it is.
After(w, seq) ==
    IF \E i \in 1..Len(w) : w[i] = seq THEN w
    ELSE IF Len(w) = Size THEN Append(Tail(w), seq)
    ELSE Append(w, seq)

SeenInit == windows = <<>> /\ again = FALSE

\* A packet of flow k; a new flow may push out all the others.
See(k, seq) ==
    /\ \/ /\ k \in Known
          /\ windows' = [windows EXCEPT ![k] = After(@, seq)]
       \/ /\ k \notin Known
          /\ \E kept \in {Known, {}} :
                windows' = [j \in kept \cup {k} |->
                                IF j = k THEN <<seq>> ELSE windows[j]]
    /\ again' = (k \in Known /\ \E i \in 1..Len(windows[k]) : windows[k][i] = seq)

SeenNext == \E k \in Keys, seq \in Seqs : See(k, seq)

SeenSpec == SeenInit /\ [][SeenNext]_seenVars
=============================================================================
