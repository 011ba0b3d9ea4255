---------------------------- MODULE MCRuleCycle ----------------------------
(* RuleCycle with rules that trigger and undo each other.  c=1 schedules   *)
(* on2 and wh together; on2 sets off on3, which makes the condition of on1 *)
(* untrue, and wh makes it true again; if1 makes on2 and wh untrue.  on1   *)
(* (`::alert' without members) and on4 (`?') do not react to what they     *)
(* have asserted.                                                          *)
EXTENDS RuleCycle

MCTerm == {"a", "b", "c"}
MCValue == {"F", "T", "V"}
MCTrue == {"T", "V"}
MCFirst == [t \in MCTerm |-> "F"]
MCRule == {"on1", "on2", "on3", "on4", "wh", "if1"}
MCApi == {"node"}
MCType == [on1 |-> "on", on2 |-> "on", on3 |-> "on", on4 |-> "on", wh |-> "when", if1 |-> "if"]
Watched == [on1 |-> "a", on2 |-> "c", on3 |-> "b", on4 |-> "c", wh |-> "c", if1 |-> "b"]
MCCondition(r, s) == s[Watched[r]]
MCPriority == [on1 |-> 0, on2 |-> 1, on3 |-> 0, on4 |-> 3, wh |-> 2, if1 |-> -1, node |-> 0]
None == <<>>
MCAssertion == [on1 |-> <<Set("b", "T")>>, on2 |-> <<Set("b", "T")>>, on3 |-> None,
                on4 |-> <<Set("b", "F")>>, wh |-> None, if1 |-> None, node |-> <<Set("a", "V")>>]
Null == [operation |-> "null"]
Perform(cmd) == [operation |-> "perform", command |-> cmd]
MCInstruction ==
  [on1  |-> [operation |-> "alert", sets |-> None],
   on2  |-> Null,
   on3  |-> [operation |-> "assert", sets |-> <<Set("b", "F"), Set("a", "F"), Set("a", "T")>>],
   on4  |-> Perform(Compute),
   wh   |-> Perform(CmdAlert(<<Set("a", "F"), Set("a", "T")>>)),
   if1  |-> [operation |-> "alert", sets |-> <<Set("c", "F")>>],
   node |-> Perform(Manage("undefine", "on1"))]
MCCommand ==
  {CmdAssert(<<Set("a", "T"), Set("b", "T"), Node("node")>>), CmdAssert(<<Set("c", "T"), Set("a", "T")>>),
   CmdAssert(<<Set("a", "F"), Set("a", "T")>>), CmdAlert(<<Set("c", "F"), Set("b", "F"), Node("node")>>),
   Manage("undefine", "on3"), Manage("disable", "on1"), Manage("enable", "on1"), Compute}
============================================================================
