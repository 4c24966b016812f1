------------------------------ MODULE FrameFeed ------------------------------
(***************************************************************************)
(* What the frame manager promises its consumers: frames of a channel are  *)
(* numbered, and each frame reaches, in one step, exactly the consumers    *)
(* subscribed to the channel at that moment.  FrameManager is the code     *)
(* that implements this with a mutex and one callback after the other.     *)
(***************************************************************************)
EXTENDS Naturals

CONSTANTS Consumers, Channels

VARIABLES
    wants,  \* the channels each consumer is subscribed to
    made,   \* the number of frames of each channel so far
    got     \* the last frame of each channel each consumer was given

feed == <<wants, made, got>>

Init == /\ wants = [c \in Consumers |-> {}]
        /\ made = [ch \in Channels |-> 0]
        /\ got = [c \in Consumers |-> [ch \in Channels |-> 0]]

Subscribe(c) == /\ \E S \in SUBSET Channels : wants' = [wants EXCEPT ![c] = S]
                /\ UNCHANGED <<made, got>>

Publish(ch) == /\ made' = [made EXCEPT ![ch] = @ + 1]
               /\ got' = [c \in Consumers |->
                            IF ch \in wants[c]
                              THEN [got[c] EXCEPT ![ch] = made[ch] + 1]
                              ELSE got[c]]
               /\ UNCHANGED wants

Next == \/ \E c \in Consumers : Subscribe(c)
        \/ \E ch \in Channels : Publish(ch)

Spec == Init /\ [][Next]_feed

=============================================================================
