----------------------------- MODULE MCReceiver -----------------------------
(***************************************************************************)
(* The parts of the receiver that are specified alone, and the matching of *)
(* topics it shares with the bridge, in one run: `focus` is the part a     *)
(* behaviour is about, the others rest.                                    *)
(***************************************************************************)
EXTENDS MqttPublish, FlashStores, RainHooks, RadioHealth, TopicMatch

CONSTANT Focus \* the parts to look at

VARIABLE focus

receiverParts == <<publishVars, flashVars, rainVars, radioVars, topicVars>>

\* The build's own broker, beside a table of two.
BuildFlags == <<[url |-> "d", token |-> "t"]>>

-----------------------------------------------------------------------------
Init ==
  /\ focus \in Focus
  /\ PublishInit /\ FlashInit /\ RainInit /\ RadioInit /\ TopicInit
  /\ focus # "flash" => storeKind = "blob" /\ flash.main = Nil
  /\ focus # "topics" => filter = <<"#">> /\ topicParts = <<"a">>

Next ==
  \/ focus = "mqtt" /\ PublishNext /\ UNCHANGED <<flashVars, rainVars, radioVars, topicVars, focus>>
  \/ focus = "flash" /\ FlashNext /\ UNCHANGED <<publishVars, rainVars, radioVars, topicVars, focus>>
  \/ focus = "rain" /\ RainNext /\ UNCHANGED <<publishVars, flashVars, radioVars, topicVars, focus>>
  \/ focus = "radio" /\ RadioNext /\ UNCHANGED <<publishVars, flashVars, rainVars, topicVars, focus>>
  \/ focus = "topics" /\ TopicNext /\ UNCHANGED <<publishVars, flashVars, rainVars, radioVars, focus>>

\* PublishFairness, for the part in focus.
Fairness ==
  /\ WF_publishVars(focus = "mqtt" /\ BackoffPasses)
  /\ \A s \in ConnSlot :
       /\ WF_publishVars(focus = "mqtt" /\ DeathSeen(s))
       /\ SF_publishVars(focus = "mqtt" /\ \E reached \in SUBSET ConnSlot : s \in reached /\ PublishLoop(reached))

Spec == Init /\ [][Next]_<<receiverParts, focus>> /\ Fairness

-----------------------------------------------------------------------------
\* BrokersReached of MqttPublish, where that part runs.
LinksComeBack == focus = "mqtt" => BrokersReached
=============================================================================
