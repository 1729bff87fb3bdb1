---------------------------- MODULE MCAesdSocket ----------------------------
(* The server with a few clients and the requests they can make.           *)
EXTENDS ServerOnDevice, TLC

CONSTANT old   \* the author of what the device held before

NothingEarlier == << >>
OneEarlier == <<old>>

packet == [kind |-> "packet", leaves |-> TRUE]
hangup == [kind |-> "hangup", leaves |-> TRUE]
seek(i, j) == [kind |-> "seek", cmd |-> i, off |-> j, leaves |-> TRUE]

(* A seek inside the only command, and one past the last command.          *)
AllRequests == {packet, hangup, seek(0, 1), seek(1, 0)}
FileRequests == {packet, hangup}

(* Clients that stay until they have the reply.                            *)
patient == [kind |-> "packet", leaves |-> FALSE]
stalled == [kind |-> "stalled", leaves |-> FALSE]

StallRequests == {patient, stalled}
PatientRequests == {patient}

Symmetry == Permutations(Client)
=============================================================================
