--------------------------- MODULE AuroraFlowControl ---------------------------
(***************************************************************************)
(* The Aurora link with credits (aurora-flowcontrol.bsv): two sides that   *)
(* find out with heartbeats that both are up, then exchange words, and     *)
(* return to each other the credits for the words that have left their     *)
(* receive buffers.  Each Bluespec rule of a side is one action.           *)
(*                                                                         *)
(* The link loses nothing but, at the start, a heartbeat; a word is known  *)
(* by its position in its sender's stream and a flit of data by its        *)
(* position in the stream of flits.                                        *)
(***************************************************************************)
EXTENDS Integers, Sequences

CONSTANTS Credits,           \* total_credits
          InterfaceWords,    \* interface_words: flits of a word
          HeartbeatNumbers,  \* 2^(width of the heartbeat counters)
          ReadyRX, ReadyTX,  \* heartbeats to see before receiving, sending
          CCCycles,          \* clock compensations to see before a heartbeat
          CreditDepth,       \* depth of creditFIFO
          RxDepth,           \* depth of serdes_rxfifo
          LinkBound,         \* bound: flits in flight in one direction
          MaxWords,          \* bound: words the user of a side writes
          Troubles           \* what may go wrong with heartbeats: subsets of
                             \* {"skip", "lose"}, one of them in a behaviour

Sides == {0, 1}
Other(s) == 1 - s

ASSUME FlowAssumption ==
    /\ Credits \in Nat \ {0} /\ Credits % 4 = 0
    /\ InterfaceWords \in Nat \ {0}
    /\ HeartbeatNumbers \in Nat \ {0}
    /\ ReadyRX \in Nat /\ ReadyTX \in Nat
    /\ CCCycles \in Nat /\ Troubles \subseteq SUBSET {"skip", "lose"}
    /\ CreditDepth \in Nat \ {0} /\ RxDepth \in Nat \ {0}
    /\ LinkBound \in Nat \ {0}
    /\ MaxWords \in [Sides -> Nat]

VARIABLES
    ccCycles, heartbeatTX, heartbeatRX, heartbeatConsecutive, heartbeatFirst,
    handshakeRXDone, handshakeTXDone,
    turn,           \* the side whose heartbeat counter is zero next
    skipped,        \* whether a side's transceiver was busy at its last beat
    trouble,        \* what may still go wrong with a heartbeat
    marshaller,     \* flits of the current word still to send
    flitCountTX, txCredits,
    accepted,       \* words accepted from the writing user
    link,           \* flits sent by a side and not yet received
    flitCountRX, creditFIFO,
    infifo,         \* serdes_infifo
    demarshaller,   \* the flits of a word that is being put together
    rxCredits,
    delivered,      \* words put into serdes_rxfifo
    rxfifo          \* number of words in serdes_rxfifo

beatVars == <<heartbeatTX, turn, skipped>>
handshakeVars == <<heartbeatRX, heartbeatConsecutive, heartbeatFirst,
                   handshakeRXDone, handshakeTXDone>>
sendVars == <<marshaller, flitCountTX, txCredits, accepted>>
receiveVars == <<flitCountRX, creditFIFO, infifo>>
outVars == <<demarshaller, rxCredits, delivered, rxfifo>>
flowVars == <<ccCycles, beatVars, handshakeVars, trouble, sendVars, link,
              receiveVars, outVars>>

All(value) == [s \in Sides |-> value]

Init ==
    /\ ccCycles = All(CCCycles)
    /\ heartbeatTX = All(0) /\ heartbeatRX = All(0)
    /\ heartbeatConsecutive = All(0) /\ heartbeatFirst = All(TRUE)
    /\ handshakeRXDone = All(FALSE) /\ handshakeTXDone = All(FALSE)
    /\ turn \in Sides /\ skipped = All(FALSE)
    /\ trouble \in Troubles
    /\ marshaller = All(0) /\ flitCountTX = All(0)
    /\ txCredits = All(Credits) /\ accepted = All(0)
    /\ link = All(<<>>)
    /\ flitCountRX = All(0) /\ creditFIFO = All(<<>>) /\ infifo = All(<<>>)
    /\ demarshaller = All(<<>>) /\ rxCredits = All(0)
    /\ delivered = All(0) /\ rxfifo = All(0)

-----------------------------------------------------------------------------
(* The high bits of the first flit of a message are 0X for data, 11 for    *)
(* credits and 10 for a heartbeat.  The later flits of a word have any     *)
(* high bits; only counting tells them from first flits.                   *)
Data(n) == [kind |-> "data", n |-> n]
Credit(c) == [kind |-> "credit", n |-> c]
Heartbeat(s) == [kind |-> "heartbeat", n |-> heartbeatTX[s],
                 consecutive |-> heartbeatConsecutive[s],
                 done |-> handshakeTXDone[s]]

NextHeartbeat(h) == (h + 1) % HeartbeatNumbers

NextFlit(i) == IF i + 1 = InterfaceWords THEN 0 ELSE i + 1

(* ug_device.send *)
Send(s, flit) == /\ Len(link[s]) < LinkBound
                 /\ link' = [link EXCEPT ![s] = Append(@, flit)]

-----------------------------------------------------------------------------
(* The transmit side. *)

TickCC(s) ==
    /\ ccCycles[s] > 0
    /\ ccCycles' = [ccCycles EXCEPT ![s] = @ - 1]
    /\ UNCHANGED <<beatVars, handshakeVars, trouble, sendVars, link,
                   receiveVars, outVars>>

(* beat: the heartbeat counters of the two sides run at the same speed, so *)
(* they reach zero in turns, and in the time between the last heartbeat    *)
(* has arrived.                                                            *)
Beat(s) == /\ turn = s
           /\ turn' = Other(s)
           /\ \A i \in DOMAIN link[s] : link[s][i].kind # "heartbeat"

(* Defective variant: a heartbeat is sent in the middle of a word. *)
TxHeartbeatAnytime(s) ==
    /\ Beat(s)
    /\ ccCycles[s] = 0
    /\ Send(s, Heartbeat(s))
    /\ heartbeatTX' = [heartbeatTX EXCEPT ![s] = NextHeartbeat(@)]
    /\ skipped' = [skipped EXCEPT ![s] = FALSE]
    /\ UNCHANGED <<ccCycles, handshakeVars, trouble, sendVars, receiveVars,
                   outVars>>

TxHeartbeat(s) ==
    /\ Beat(s)
    /\ ccCycles[s] = 0 /\ flitCountTX[s] = 0
    /\ Send(s, Heartbeat(s))
    /\ heartbeatTX' = [heartbeatTX EXCEPT ![s] = NextHeartbeat(@)]
    /\ skipped' = [skipped EXCEPT ![s] = FALSE]
    /\ UNCHANGED <<ccCycles, handshakeVars, trouble, sendVars, receiveVars,
                   outVars>>

(* txHeartbeat does not fire in the one cycle in which the counter is      *)
(* zero: its guard is false, other traffic fills the link, or the          *)
(* transceiver inserts clock compensation, which it does less than half as *)
(* often.                                                                  *)
SkipHeartbeat(s) ==
    /\ Beat(s)
    /\ \/ ccCycles[s] > 0 \/ flitCountTX[s] # 0 \/ Len(link[s]) = LinkBound
       \/ "skip" \in trouble /\ ~skipped[s]
    /\ skipped' = [skipped EXCEPT ![s] = TRUE]
    /\ UNCHANGED <<ccCycles, heartbeatTX, handshakeVars, trouble, sendVars,
                   link, receiveVars, outVars>>

(* Defective variant: credits are only returned by a side that has none left. *)
CreditsDueStarved(s) == /\ rxCredits[s] > Credits \div 2
                        /\ marshaller[s] = 0 /\ txCredits[s] = 0

(* Enough credits to return: more than half of them if nothing else wants  *)
(* to be sent or can be, more than three quarters in any case.             *)
CreditsDue(s) ==
    \/ /\ rxCredits[s] > Credits \div 2
       /\ marshaller[s] = 0 \/ txCredits[s] = 0
    \/ rxCredits[s] > 3 * (Credits \div 4)

(* Defective variant: the credits are sent and kept. *)
TxFCKept(s) ==
    /\ flitCountTX[s] = 0
    /\ CreditsDue(s)
    /\ Send(s, Credit(rxCredits[s]))
    /\ UNCHANGED <<ccCycles, beatVars, handshakeVars, trouble, sendVars,
                   receiveVars, outVars>>

TxFC(s) ==
    /\ flitCountTX[s] = 0
    /\ CreditsDue(s)
    /\ Send(s, Credit(rxCredits[s]))
    /\ rxCredits' = [rxCredits EXCEPT ![s] = 0]
    /\ UNCHANGED <<ccCycles, beatVars, handshakeVars, trouble, sendVars,
                   receiveVars, demarshaller, delivered, rxfifo>>

(* Defective variant: no credit is needed to send. *)
TxDataFree(s) ==
    /\ handshakeTXDone[s]
    /\ marshaller[s] = 0 /\ accepted[s] < MaxWords[s]
    /\ marshaller' = [marshaller EXCEPT ![s] = InterfaceWords]
    /\ accepted' = [accepted EXCEPT ![s] = @ + 1]
    /\ UNCHANGED <<ccCycles, beatVars, handshakeVars, trouble, flitCountTX,
                   txCredits, link, receiveVars, outVars>>

(* write, txData: the user's next word enters the marshaller. *)
TxData(s) ==
    /\ handshakeTXDone[s] /\ txCredits[s] > 0
    /\ marshaller[s] = 0 /\ accepted[s] < MaxWords[s]
    /\ marshaller' = [marshaller EXCEPT ![s] = InterfaceWords]
    /\ accepted' = [accepted EXCEPT ![s] = @ + 1]
    /\ txCredits' = [txCredits EXCEPT ![s] = @ - 1]
    /\ UNCHANGED <<ccCycles, beatVars, handshakeVars, trouble, flitCountTX,
                   link, receiveVars, outVars>>

TxSend(s) ==
    /\ handshakeTXDone[s]
    /\ marshaller[s] > 0
    /\ Send(s, Data(accepted[s] * InterfaceWords - marshaller[s]))
    /\ marshaller' = [marshaller EXCEPT ![s] = @ - 1]
    /\ flitCountTX' = [flitCountTX EXCEPT ![s] = NextFlit(@)]
    /\ UNCHANGED <<ccCycles, beatVars, handshakeVars, trouble, txCredits,
                   accepted, receiveVars, outVars>>

-----------------------------------------------------------------------------
(* The receive side. *)

incoming(s) == link[Other(s)]

(* rxDemarsh has nothing to do: it can always fire in the cycles in which  *)
(* serdes_infifo fills up, and is not kept waiting by rxIntake.            *)
DemarshIdle(s) ==
    infifo[s] = <<>> \/ Len(demarshaller[s]) = InterfaceWords

(* The FIFOs that rxIntake may write to are not full. *)
IntakeReady(s) == /\ Len(creditFIFO[s]) < CreditDepth
                  /\ Len(infifo[s]) < Credits * InterfaceWords

(* What the three branches of rxIntake have in common. *)
RxIntake(s) ==
    /\ incoming(s) # <<>>
    /\ DemarshIdle(s) /\ IntakeReady(s)
    /\ link' = [link EXCEPT ![Other(s)] = Tail(@)]
    /\ UNCHANGED <<ccCycles, beatVars, trouble, sendVars, outVars>>

(* Credits are ignored until the handshake is done. *)
RxCredit(s) ==
    /\ RxIntake(s)
    /\ flitCountRX[s] = 0 /\ Head(incoming(s)).kind = "credit"
    /\ creditFIFO' = IF handshakeRXDone[s]
                     THEN [creditFIFO EXCEPT ![s] =
                             Append(@, Head(incoming(s)).n)]
                     ELSE creditFIFO
    /\ UNCHANGED <<handshakeVars, flitCountRX, infifo>>

(* Defective variant: a side is ready to receive when it is ready to send. *)
RxHeartbeatTogether(s) ==
    LET beat == Head(incoming(s))
        ready(min) == heartbeatConsecutive[s] > min /\ beat.consecutive > min
    IN
    /\ RxIntake(s)
    /\ flitCountRX[s] = 0 /\ beat.kind = "heartbeat"
    /\ heartbeatRX' = [heartbeatRX EXCEPT ![s] = beat.n]
    /\ IF NextHeartbeat(heartbeatRX[s]) = beat.n
            /\ (heartbeatFirst[s] => ~beat.done)
       THEN /\ heartbeatFirst' = [heartbeatFirst EXCEPT ![s] = FALSE]
            /\ heartbeatConsecutive' =
                 [heartbeatConsecutive EXCEPT ![s] = NextHeartbeat(@)]
       ELSE UNCHANGED <<heartbeatFirst, heartbeatConsecutive>>
    /\ handshakeRXDone' = [handshakeRXDone EXCEPT ![s] = @ \/ ready(ReadyTX)]
    /\ handshakeTXDone' = [handshakeTXDone EXCEPT ![s] = @ \/ ready(ReadyTX)]
    /\ UNCHANGED receiveVars

(* A heartbeat that follows the last one counts, unless it is the first    *)
(* and the other side has already been through a handshake.  Both sides    *)
(* must have counted enough; for receiving, fewer than for sending.        *)
RxHeartbeat(s) ==
    LET beat == Head(incoming(s))
        ready(min) == heartbeatConsecutive[s] > min /\ beat.consecutive > min
    IN
    /\ RxIntake(s)
    /\ flitCountRX[s] = 0 /\ beat.kind = "heartbeat"
    /\ heartbeatRX' = [heartbeatRX EXCEPT ![s] = beat.n]
    /\ IF NextHeartbeat(heartbeatRX[s]) = beat.n
            /\ (heartbeatFirst[s] => ~beat.done)
       THEN /\ heartbeatFirst' = [heartbeatFirst EXCEPT ![s] = FALSE]
            /\ heartbeatConsecutive' =
                 [heartbeatConsecutive EXCEPT ![s] = NextHeartbeat(@)]
       ELSE UNCHANGED <<heartbeatFirst, heartbeatConsecutive>>
    /\ handshakeRXDone' = [handshakeRXDone EXCEPT ![s] = @ \/ ready(ReadyRX)]
    /\ handshakeTXDone' = [handshakeTXDone EXCEPT ![s] = @ \/ ready(ReadyTX)]
    /\ UNCHANGED receiveVars

(* The first flit of a word, which is ignored until the handshake is done, *)
(* or a later one, whatever it looks like.                                 *)
RxData(s) ==
    /\ RxIntake(s)
    /\ flitCountRX[s] # 0 \/ Head(incoming(s)).kind = "data"
    /\ IF flitCountRX[s] = 0 /\ ~handshakeRXDone[s]
       THEN UNCHANGED <<flitCountRX, infifo>>
       ELSE /\ infifo' = [infifo EXCEPT ![s] = Append(@, Head(incoming(s)))]
            /\ flitCountRX' = [flitCountRX EXCEPT ![s] = NextFlit(@)]
    /\ UNCHANGED <<handshakeVars, creditFIFO>>

UpdateCredit(s) ==
    /\ creditFIFO[s] # <<>>
    /\ creditFIFO' = [creditFIFO EXCEPT ![s] = Tail(@)]
    /\ txCredits' = [txCredits EXCEPT ![s] = @ + Head(creditFIFO[s])]
    /\ UNCHANGED <<ccCycles, beatVars, handshakeVars, trouble, marshaller,
                   flitCountTX, accepted, link, flitCountRX, infifo, outVars>>

RxDemarsh(s) ==
    /\ ~DemarshIdle(s)
    /\ infifo' = [infifo EXCEPT ![s] = Tail(@)]
    /\ demarshaller' = [demarshaller EXCEPT ![s] = Append(@, Head(infifo[s]))]
    /\ UNCHANGED <<ccCycles, beatVars, handshakeVars, trouble, sendVars, link,
                   flitCountRX, creditFIFO, rxCredits, delivered, rxfifo>>

(* A complete word leaves the credited buffer. *)
RxDone(s) ==
    /\ Len(demarshaller[s]) = InterfaceWords
    /\ rxfifo[s] < RxDepth
    /\ demarshaller' = [demarshaller EXCEPT ![s] = <<>>]
    /\ rxCredits' = [rxCredits EXCEPT ![s] = @ + 1]
    /\ delivered' = [delivered EXCEPT ![s] = @ + 1]
    /\ rxfifo' = [rxfifo EXCEPT ![s] = @ + 1]
    /\ UNCHANGED <<ccCycles, beatVars, handshakeVars, trouble, sendVars, link,
                   receiveVars>>

(* The reading user takes a word. *)
Deq(s) ==
    /\ rxfifo[s] > 0
    /\ rxfifo' = [rxfifo EXCEPT ![s] = @ - 1]
    /\ UNCHANGED <<ccCycles, beatVars, handshakeVars, trouble, sendVars, link,
                   receiveVars, demarshaller, rxCredits, delivered>>

(* One heartbeat is damaged on the way and not taken for one. *)
LoseHeartbeat(s) ==
    /\ "lose" \in trouble
    /\ incoming(s) # <<>> /\ Head(incoming(s)).kind = "heartbeat"
    /\ link' = [link EXCEPT ![Other(s)] = Tail(@)]
    /\ trouble' = trouble \ {"lose"}
    /\ UNCHANGED <<ccCycles, beatVars, handshakeVars, sendVars, receiveVars,
                   outVars>>

-----------------------------------------------------------------------------
Intake(s) == RxCredit(s) \/ RxHeartbeat(s) \/ RxData(s)

Next == \E s \in Sides :
          \/ TickCC(s) \/ TxHeartbeat(s) \/ SkipHeartbeat(s)
          \/ TxFC(s) \/ TxData(s) \/ TxSend(s)
          \/ RxCredit(s) \/ RxHeartbeat(s) \/ RxData(s)
          \/ UpdateCredit(s) \/ RxDemarsh(s) \/ RxDone(s)
          \/ Deq(s) \/ LoseHeartbeat(s)

Spec == Init /\ [][Next]_flowVars

(* A rule that can fire does, and the users write and read.  A heartbeat   *)
(* takes the transceiver for one cycle in 2048, so a rule that sends finds *)
(* it free again and again and is not passed over for ever.                *)
Fairness == \A s \in Sides :
    /\ WF_flowVars(TickCC(s))
    /\ WF_flowVars(TxHeartbeat(s) \/ SkipHeartbeat(s))
    /\ SF_flowVars(TxFC(s)) /\ SF_flowVars(TxSend(s))
    /\ WF_flowVars(TxData(s))
    /\ WF_flowVars(Intake(s)) /\ WF_flowVars(UpdateCredit(s))
    /\ WF_flowVars(RxDemarsh(s)) /\ WF_flowVars(RxDone(s))
    /\ WF_flowVars(Deq(s))

LiveSpec == Spec /\ Fairness

-----------------------------------------------------------------------------
(* Properties. *)

Flits == [kind : {"data", "credit"}, n : Nat]
           \cup [kind : {"heartbeat"}, n : 0 .. HeartbeatNumbers - 1,
                 consecutive : 0 .. HeartbeatNumbers - 1, done : BOOLEAN]

Numbers == 0 .. HeartbeatNumbers - 1

(* Counters stay within their widths and FIFOs within their depths. *)
TypeOK ==
    /\ ccCycles \in [Sides -> 0 .. CCCycles]
    /\ heartbeatTX \in [Sides -> Numbers]
    /\ heartbeatRX \in [Sides -> Numbers]
    /\ heartbeatConsecutive \in [Sides -> Numbers]
    /\ heartbeatFirst \in [Sides -> BOOLEAN]
    /\ handshakeRXDone \in [Sides -> BOOLEAN]
    /\ handshakeTXDone \in [Sides -> BOOLEAN]
    /\ turn \in Sides /\ skipped \in [Sides -> BOOLEAN] 
    /\ trouble \subseteq {"skip", "lose"}
    /\ marshaller \in [Sides -> 0 .. InterfaceWords]
    /\ flitCountTX \in [Sides -> 0 .. InterfaceWords - 1]
    /\ flitCountRX \in [Sides -> 0 .. InterfaceWords - 1]
    /\ txCredits \in [Sides -> 0 .. Credits]
    /\ rxCredits \in [Sides -> 0 .. Credits]
    /\ accepted \in [Sides -> Nat] /\ delivered \in [Sides -> Nat]
    /\ link \in [Sides -> Seq(Flits)]
    /\ creditFIFO \in [Sides -> Seq(Nat)]
    /\ infifo \in [Sides -> Seq(Flits)]
    /\ demarshaller \in [Sides -> Seq(Flits)]
    /\ rxfifo \in [Sides -> 0 .. RxDepth]

(* "We become ready to receive before we become ready to transmit.  This   *)
(* ensures that we do not drop actual RX data": words and credits only     *)
(* arrive at a side whose handshakeRXDone is set, though each side decides *)
(* on its own, heartbeats are skipped or trouble, and the counters wrap.      *)
NothingIgnored ==
    \A s \in Sides : incoming(s) # <<>> /\ Head(incoming(s)).kind # "heartbeat"
                       => handshakeRXDone[s]

(* "We always need to receive": the rule drop never fires.  A full         *)
(* serdes_infifo or creditFIFO would lose the flit that arrives, be it     *)
(* data, credits or a heartbeat.                                           *)
AlwaysReceives ==
    \A s \in Sides : incoming(s) # <<>> /\ DemarshIdle(s) => IntakeReady(s)

(* creditUnderflow is never set: the credits that come back never make     *)
(* more of them than there are.                                            *)
NoCreditUnderflow ==
    \A s \in Sides : creditFIFO[s] # <<>>
                       => txCredits[s] + Head(creditFIFO[s]) <= Credits

(* Each word that is handed to the user is made of the flits of the next   *)
(* word of the other side, in their order: none is lost or repeated.       *)
WordsIntact ==
    \A s \in Sides : Len(demarshaller[s]) = InterfaceWords =>
      \A i \in 1 .. InterfaceWords :
        demarshaller[s][i] = Data(delivered[s] * InterfaceWords + i - 1)

(* A side that has run out of credits gets them back: when its words have  *)
(* been delivered and no credits are on their way, the other side owes     *)
(* enough to return them, also if it has no credits left itself or has     *)
(* words to send.                                                          *)
CreditsComeBack ==
    \A s \in Sides :
      /\ txCredits[s] = 0 /\ accepted[s] = delivered[Other(s)]
      /\ creditFIFO[s] = <<>>
      /\ \A i \in DOMAIN incoming(s) : incoming(s)[i].kind # "credit"
      => CreditsDue(Other(s))

(* Every word that a user writes arrives: neither the handshake nor the    *)
(* return of credits gets stuck.                                           *)
WordsArrive == <>(\A s \in Sides : delivered[Other(s)] = MaxWords[s])
=============================================================================
