----------------------------- MODULE MCSeqRule -----------------------------
(* Three rules: one that answers a condition with an assertion and, a      *)
(* second later, a command; one that does so twice, and decides; one that  *)
(* follows a term and performs a command in every reaction.                *)
EXTENDS SeqRule

Sets(t, v) == [x \in {t} |-> v]
Says(t, v) == [op |-> "assert", sets |-> Sets(t, v)]
Does(c) == [op |-> "command", command |-> c]

Answer == <<[op |-> "on", cond |-> "a"], Says("b", "t"), [op |-> "step", n |-> 1], Does([sets |-> Sets("a", "f")])>>
Twice ==
  <<[op |-> "repeat", count |-> 2, body |->
      <<[op |-> "onif", cond |-> "b"],
        [op |-> "if", cond |-> "a", then |-> <<Says("b", "f")>>, else |-> <<Does([run |-> "follow"])>>]>>]>>
Follow ==
  <<[op |-> "follow", term |-> "b"],
    [op |-> "repeat", count |-> 0, body |-> <<Does([run |-> "answer"]), [op |-> "publish", value |-> "t"]>>]>>

Plans == "answer" :> Answer @@ "twice" :> Twice @@ "follow" :> Follow
Commands == {[sets |-> Sets("a", "t")], [sets |-> Sets("a", "f")], [sets |-> Sets("b", "t")],
             [run |-> "answer"], [run |-> "twice"]}
============================================================================
