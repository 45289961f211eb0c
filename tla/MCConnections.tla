--------------------------- MODULE MCConnections ---------------------------
(* An instance of Connections for TLC.                                     *)
EXTENDS Connections

CONSTANTS busy, other

\* One client may send two messages, turns and notifications, the other one.
MCUses == [c \in {busy, other} |-> IF c = busy THEN {"initialize", "turn", "notice"}
                                   ELSE {"initialize", "call"}]
MCRequests == [c \in {busy, other} |-> IF c = busy THEN 2 ELSE 1]

=============================================================================
