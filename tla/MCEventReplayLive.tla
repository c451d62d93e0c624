-------------------------- MODULE MCEventReplayLive --------------------------
(***************************************************************************)
(* What the documentation promises of the order of retained and live       *)
(* frames, with the history it takes to say it.                            *)
(***************************************************************************)
EXTENDS MCEventReplay

VARIABLE atConnect \* history: stream -> the device frames retained when it attached

Attaches(i) == sse'[i] # None /\ (sse[i] = None \/ sse'[i].attachedAt # sse[i].attachedAt)

DeviceFrames == {subs[j] : j \in Sub} \ {None}

\* Behaviours in which the table is filled from its first entry and keeps what
\* it has: nothing is evicted or swept.
LiveInit == Init /\ atConnect = [i \in Client |-> {}]
LiveNext ==
  /\ Next
  /\ \A j \in Sub : (subs'[j] # None => \A i \in 1..j : subs'[i] # None) /\ (subs'[j] = None => subs[j] = None)
  /\ atConnect' = [i \in Client |-> IF Attaches(i) THEN DeviceFrames ELSE atConnect[i]]

LiveSpec == LiveInit /\ [][LiveNext]_<<vars, atConnect>>

\* receiver/docs/user-manual.md:313 "On connect, before any live frame, a
\* subscriber receives the latest frame retained for each message type of every
\* device it is subscribed to": no live frame of a device goes out on a stream
\* that still waits for a frame that was retained when it attached.
RetainedBeforeLive ==
  [][\A i \in Open(sse) :
       subs' # subs /\ sse'[i] # None /\ sse'[i].sent # sse[i].sent =>
         \A f \in atConnect[i] \cap DeviceFrames : f.topic \in sse[i].wants => f \in sse[i].sent
    ]_<<vars, atConnect>>
=============================================================================
