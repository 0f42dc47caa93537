----------------------- MODULE MCSubscriptionSelector -----------------------
(* Lists of model refs for the instances of SubscriptionSelector.           *)
EXTENDS SubscriptionSelector

chat == [ns |-> "llm", name |-> "chat"]
code == [ns |-> "llm", name |-> "code"]

Ref(m, limits) == [model |-> m, limits |-> limits]

\* Two models: one alone, or both, limited or not.
TwoModels == {chat, code}
TwoModelRefs == {<<Ref(chat, {1, 3})>>, <<Ref(code, {2}), Ref(chat, {})>>}
=============================================================================
