---------------------------- MODULE AtomicBoard ----------------------------
(***************************************************************************)
(* What the durable board of harness/board.py promises to the code inside  *)
(* locked_state(): one value, read and replaced as a whole.  A transaction *)
(* adds its events behind all earlier ones, in one step; a record leaves   *)
(* the board only because its task was cancelled; nothing of a transaction *)
(* that died or raised shows.  Where the files, the archive and the lock   *)
(* are is BoardStore's matter, which implements this.                      *)
(***************************************************************************)
EXTENDS Naturals, Sequences

CONSTANT Gone   \* there is no readable board

VARIABLE board  \* [history, present, cancelled], or Gone

Extends(old, new) ==
    Len(old) < Len(new) /\ \A n \in DOMAIN old : new[n] = old[n]

Init == board = Gone

Transaction ==
    /\ Gone \notin {board, board'}
    /\ Extends(board.history, board'.history)
    /\ board.cancelled \subseteq board'.cancelled
    /\ board.present \ board'.present \subseteq board'.cancelled

\* The first board, or one restored after the files were lost.
Open == board = Gone /\ board' # Gone

Lose == board' = Gone

Next == Transaction \/ Open \/ Lose

Spec == Init /\ [][Next]_board
=============================================================================
