------------------------------- MODULE MCHistory -------------------------------
(* An instance of History for TLC.                                         *)
EXTENDS History

MCModes == {"", "v1", "track24", "gdeposylka"}
MCSounding == {"sent for delivery", "delivered"}
MCSeeds == {<<"accepted", "delivered">>, <<"sent for delivery", "delivered">>}
MCDefault == <<"accepted", "moving">>
MCV1 == <<[status |-> "IN_TRANSIT", text |-> "accepted"],
          [status |-> "DELIVERED", text |-> "delivered"]>>
MCMaxTime == [v1 |-> 1, track24 |-> 2, fake |-> 2]

=============================================================================
