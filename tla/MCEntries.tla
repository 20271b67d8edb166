------------------------------ MODULE MCEntries ------------------------------
(* An oven: an operation sensor and a start button of the local integration, *)
(* another button and a sensor of the cloud one, which only their names tell. *)
EXTENDS Entries

OvenKeys == <<"operation", "start", NoRole, NoRole>>
OvenNames ==
    << {"operation", NoRole}, {"start"}, {"start"}, {"operation", "door"} >>

=============================================================================
