------------------------------ MODULE Promises ------------------------------
(* What the abstract specifications promise whoever relies on them.  Each   *)
(* is implemented by a module of the same system (MultiBuffer, EnetStatus,  *)
(* EnetRx, EnetTx), which therefore keeps these promises too.               *)
EXTENDS Integers, TLAPS

CONSTANTS Capacity, MaxFrames, Addr, ZeroAddr

VARIABLES
    drawn, shown,                        \* the display
    told, lost, seen,                    \* the address
    arrived, onTheWay, last, oneReader,  \* reception
    accepted, inFlight, wire             \* transmission

Display == INSTANCE FrameFlip
Address == INSTANCE Announcement
Reception == INSTANCE LossyChannel
Transmission == INSTANCE FrameChannel

-----------------------------------------------------------------------------
(* Frames on the display.                                                  *)

FrameTypes == shown \in Nat /\ Display!OneBehind

(* The panel is never more than one frame behind the drawing code, and     *)
(* shows the frames one after the other (FrameFlip).                       *)
THEOREM DisplayPromise ==
    Display!Spec => []Display!OneBehind /\ Display!NoneSkipped
<1>1. Display!Init => FrameTypes
    BY DEF Display!Init, FrameTypes, Display!OneBehind
<1>2. ASSUME FrameTypes, [Display!Next]_<<drawn, shown>>
      PROVE  FrameTypes' /\ [shown' # shown => shown' = shown + 1]_<<drawn, shown>>
  <2>1. CASE Display!Finish BY <1>2, <2>1 DEF Display!Finish, FrameTypes, Display!OneBehind
  <2>2. CASE Display!Flip BY <1>2, <2>2 DEF Display!Flip, FrameTypes, Display!OneBehind
  <2>3. CASE UNCHANGED <<drawn, shown>> BY <1>2, <2>3 DEF FrameTypes, Display!OneBehind
  <2> QED BY <1>2, <2>1, <2>2, <2>3 DEF Display!Next
<1>3. FrameTypes => Display!OneBehind BY DEF FrameTypes
<1> QED BY <1>1, <1>2, <1>3, PTL DEF Display!Spec, Display!NoneSkipped

-----------------------------------------------------------------------------
(* The announced address.                                                  *)

AddressTypes == told \in {<<>>} \cup {<<a>> : a \in Addr \cup {ZeroAddr}}

(* Whoever has seen an address will see no other, and it was leased unless *)
(* the lease was lost at that moment (Announcement).                       *)
THEOREM AddressPromise ==
    Address!Spec => []Address!SeenIsTold /\ Address!NeverTwo
<1> DEFINE Inv == AddressTypes /\ Address!SeenIsTold
<1>1. Address!Init => Inv
    BY DEF Address!Init, AddressTypes, Address!SeenIsTold
<1>2. ASSUME Inv, [Address!Next]_<<told, lost, seen>>
      PROVE  Inv' /\ [seen # ZeroAddr => seen' = seen]_<<told, lost, seen>>
  <2>1. CASE Address!Lose
      BY <1>2, <2>1 DEF Address!Lose, AddressTypes, Address!SeenIsTold
  <2>2. CASE Address!Announce
      BY <1>2, <2>2 DEF Address!Announce, AddressTypes, Address!SeenIsTold
  <2>3. CASE Address!Look
      BY <1>2, <2>3 DEF Address!Look, AddressTypes, Address!SeenIsTold
  <2>4. CASE UNCHANGED <<told, lost, seen>>
      BY <1>2, <2>4 DEF AddressTypes, Address!SeenIsTold
  <2> QED BY <1>2, <2>1, <2>2, <2>3, <2>4 DEF Address!Next
<1>3. Inv => Address!SeenIsTold OBVIOUS
<1> HIDE DEF Inv
<1> QED BY <1>1, <1>2, <1>3, PTL DEF Address!Spec, Address!NeverTwo

-----------------------------------------------------------------------------
(* Frames that come in.                                                    *)

ArrivalTypes ==
    oneReader => /\ arrived \in Nat /\ last \in 0 .. arrived
                 /\ Reception!OnlyLater

(* While there is one reader lwIP gets only frames that came from the      *)
(* wire, none twice and none behind a later one (LossyChannel).            *)
THEOREM ReceptionPromise ==
    Reception!Spec => []Reception!OnlyLater /\ Reception!NeverBack
<1> DEFINE Step == [oneReader' /\ last' # last => last' \in last + 1 .. arrived]_(Reception!channelVars)
<1>1. Reception!Init => ArrivalTypes
    BY DEF Reception!Init, ArrivalTypes, Reception!OnlyLater
<1>2. ASSUME ArrivalTypes, [Reception!Next]_(Reception!channelVars)
      PROVE  ArrivalTypes' /\ Step
  <2>1. CASE ~oneReader' BY <2>1 DEF ArrivalTypes
  <2>2. CASE oneReader' /\ oneReader /\ Reception!Arrive
    <3>1. /\ arrived \in Nat /\ last \in 0 .. arrived
          /\ \A f \in onTheWay : f \in last + 1 .. arrived
        BY <1>2, <2>2 DEF ArrivalTypes, Reception!OnlyLater
    <3>2. /\ arrived' = arrived + 1 /\ last' = last
          /\ \A f \in onTheWay' : f \in onTheWay \/ f = arrived + 1
        BY <2>2 DEF Reception!Arrive
    <3> QED BY <3>1, <3>2 DEF ArrivalTypes, Reception!OnlyLater
  <2>3. CASE oneReader' /\ oneReader /\ Reception!Lose
      BY <1>2, <2>3 DEF Reception!Lose, ArrivalTypes, Reception!OnlyLater
  <2>4. CASE oneReader' /\ oneReader /\ Reception!Deliver
    <3>1. /\ arrived \in Nat /\ last \in 0 .. arrived
          /\ \A f \in onTheWay : f \in last + 1 .. arrived
        BY <1>2, <2>4 DEF ArrivalTypes, Reception!OnlyLater
    <3>2. PICK f \in onTheWay :
            /\ \A g \in onTheWay : f <= g
            /\ last' = f /\ onTheWay' = onTheWay \ {f} /\ arrived' = arrived
        BY <2>4 DEF Reception!Deliver
    <3> QED BY <3>1, <3>2 DEF ArrivalTypes, Reception!OnlyLater
  <2>5. CASE UNCHANGED Reception!channelVars
      BY <1>2, <2>5 DEF Reception!channelVars, ArrivalTypes, Reception!OnlyLater
  <2> QED BY <1>2, <2>1, <2>2, <2>3, <2>4, <2>5 DEF Reception!Next
<1>3. ArrivalTypes => Reception!OnlyLater BY DEF ArrivalTypes, Reception!OnlyLater
<1> QED BY <1>1, <1>2, <1>3, PTL DEF Reception!Spec, Reception!NeverBack

-----------------------------------------------------------------------------
(* Frames that go out.                                                     *)

FlightTypes == accepted \in Nat /\ wire \in Nat /\ Transmission!NoneLost

(* The frames on their way are those between the last on the wire and the  *)
(* last taken over, and none is sent twice or out of turn (FrameChannel).  *)
THEOREM TransmissionPromise ==
    ASSUME Capacity \in Nat
    PROVE  Transmission!Spec => []Transmission!NoneLost /\ Transmission!OneAfterAnother
<1> DEFINE Step == [wire' # wire => wire' = wire + 1]_(Transmission!channelVars)
<1>1. Transmission!Init => FlightTypes
    BY DEF Transmission!Init, FlightTypes, Transmission!NoneLost
<1>2. ASSUME FlightTypes,
             [Transmission!Accept \/ Transmission!Deliver]_(Transmission!channelVars)
      PROVE  FlightTypes' /\ Step
  <2>1. CASE Transmission!Accept
      BY <1>2, <2>1 DEF Transmission!Accept, FlightTypes, Transmission!NoneLost
  <2>2. CASE Transmission!Deliver
    <3>1. PICK f \in inFlight :
            /\ \A g \in inFlight : f <= g
            /\ wire' = f /\ inFlight' = inFlight \ {f} /\ accepted' = accepted
        BY <2>2 DEF Transmission!Deliver
    <3>2. f = wire + 1 /\ f <= accepted
        BY <1>2, <3>1 DEF FlightTypes, Transmission!NoneLost
    <3> QED BY <1>2, <3>1, <3>2 DEF FlightTypes, Transmission!NoneLost
  <2>3. CASE UNCHANGED Transmission!channelVars
      BY <1>2, <2>3 DEF Transmission!channelVars, FlightTypes, Transmission!NoneLost
  <2> QED BY <1>2, <2>1, <2>2, <2>3
<1>3. FlightTypes => Transmission!NoneLost BY DEF FlightTypes
<1> QED BY <1>1, <1>2, <1>3, PTL DEF Transmission!Spec, Transmission!OneAfterAnother
=============================================================================
