------------------------------ MODULE MCIoLoop ------------------------------
(* IoLoop for TLC: command lines with another machine's parameter, with one *)
(* machine described twice, without a parameter for this one, and with a    *)
(* parameter that does not parse or only looks like one.                    *)
EXTENDS IoLoop

Vm(id, ram) == [name |-> "uservm", id |-> id, ram |-> ram]

MCCmdlines ==
  {<<Vm("own", "old"), [name |-> "quiet", id |-> None, ram |-> None], Vm("own", "new"),
     Vm("other", "far")>>,
   <<Vm("other", "far")>>,
   <<Vm("own", "new"), Vm("other", None)>>,
   <<Vm("own", "new"), [name |-> "uservmx", id |-> "own", ram |-> "far"]>>}
=============================================================================
