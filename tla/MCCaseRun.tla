------------------------------ MODULE MCCaseRun ------------------------------
(* Every case of at most two steps, two before-each and two after-each hooks *)
(* of these shapes.                                                          *)
EXTENDS CaseRun

Plain    == [isNil |-> FALSE, optional |-> FALSE, actions |-> {"ensure", "wait", "delete"}]
Optional == [isNil |-> FALSE, optional |-> TRUE, actions |-> {"patch", "exec"}]
Empty    == [isNil |-> FALSE, optional |-> FALSE, actions |-> {}]
NilStep  == [isNil |-> TRUE, optional |-> FALSE, actions |-> {}]
Hook     == [isNil |-> FALSE, optional |-> FALSE, actions |-> {"ensure"}]
SoftHook == [isNil |-> FALSE, optional |-> TRUE, actions |-> {"assert", "delete"}]

StepLists == UNION {[1 .. n -> {Plain, Optional, Empty, NilStep}] : n \in 0 .. 2}
HookLists == {<<>>, <<Hook>>, <<SoftHook>>, <<Hook, SoftHook>>}

SmallCases == {[steps |-> s, before |-> b, after |-> a] :
                  s \in StepLists, b \in HookLists, a \in HookLists}
=============================================================================
