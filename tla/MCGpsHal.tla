------------------------------ MODULE MCGpsHal ------------------------------
(* Model checking GpsHal: the environments of the runs. *)
EXTENDS GpsHal

NoEvents  == {}
AllEvents == EnvEvents
MnlDies   == {"mnl_death"}
=============================================================================
