-------------------------- MODULE PanelSessionProofs --------------------------
(***************************************************************************)
(* Proofs about PanelSession, for every set of command bodies, contacts,   *)
(* sessions and events: packets survive their bytes, lamps are lit as      *)
(* ordered, a frame that counts as displayed is displayed (as long as no   *)
(* more than nine replies wait unread), a controller stays in step, and    *)
(* the descriptor is kept. The arithmetic of words and bytes comes first,  *)
(* then packets and replies, then one inductive invariant for each part    *)
(* of the state: lamps, replies and screen, what a controller is told.     *)
(***************************************************************************)
EXTENDS PanelSession, TLAPS

-----------------------------------------------------------------------------
(* Words and bytes. *)

\* What the division of a byte off a number leaves.
LEMMA DivMod ==
    ASSUME NEW n \in Nat
    PROVE  /\ n \div 256 \in Nat /\ n % 256 \in 0..255
           /\ n % 256 = n - (n \div 256) * 256
           /\ n \div 65536 = (n \div 256) \div 256
           /\ n \div 16777216 = ((n \div 256) \div 256) \div 256
<1>1. n \div 256 \in Nat
  BY SMT
<1>2. n % 256 \in 0..255
  BY SMT
<1>3. n % 256 = n - (n \div 256) * 256
  BY SMT
<1>5. n \div 65536 = (n \div 256) \div 256
  BY SMT
<1>6. n \div 16777216 = ((n \div 256) \div 256) \div 256
  BY SMT
<1> QED BY <1>1, <1>2, <1>3, <1>5, <1>6, SMT

\* A number is put together again from its bytes.
LEMMA Assembled ==
    ASSUME NEW w \in Nat, NEW a \in Nat, NEW b \in Nat, NEW c \in Nat,
           NEW p \in Int, NEW q \in Int, NEW r \in Int,
           p = w - a * 256, q = a - b * 256, r = b - c * 256
    PROVE  FromBeBytes(<<c, r, q, p>>) = w
<1>1. FromBeBytes(<<c, r, q, p>>) = c * 16777216 + r * 65536 + q * 256 + p
  BY SMT DEF FromBeBytes
<1>2. c * 16777216 + r * 65536 + q * 256 + p = w
  BY SMT
<1> QED BY <1>1, <1>2, SMT

\* A word is put together again from its bytes.
LEMMA WordSurvives ==
    ASSUME NEW w \in Word
    PROVE  /\ FromBeBytes(ToBeBytes(w)) = w
           /\ \A i \in 1..4 : ToBeBytes(w)[i] \in 0..255
<1> DEFINE a == w \div 256
           b == a \div 256
           c == b \div 256
<1>1. w \in Nat /\ w \div 16777216 < 256
  BY SMT DEF Word
<1>2. /\ a \in Nat /\ w % 256 \in 0..255 /\ w % 256 = w - a * 256
      /\ w \div 65536 = b /\ w \div 16777216 = c
  BY <1>1, DivMod, SMT
<1>3. b \in Nat /\ a % 256 \in 0..255 /\ a % 256 = a - b * 256
  <2> HIDE DEF a
  <2> QED BY <1>2, DivMod, SMT
<1>4. c \in Nat /\ b % 256 \in 0..255 /\ b % 256 = b - c * 256
  <2> HIDE DEF b
  <2> QED BY <1>3, DivMod, SMT
<1>5. ToBeBytes(w) = <<c, b % 256, a % 256, w % 256>>
  BY <1>2, SMT DEF ToBeBytes
<1>6. c < 256
  BY <1>1, <1>2, SMT
<1> HIDE DEF a, b, c
<1> DEFINE p == w % 256
           q == a % 256
           r == b % 256
<1>7. /\ ToBeBytes(w) = <<c, r, q, p>>
      /\ p \in 0..255 /\ q \in 0..255 /\ r \in 0..255 /\ c \in 0..255
      /\ p = w - a * 256 /\ q = a - b * 256 /\ r = b - c * 256
  BY <1>2, <1>3, <1>4, <1>5, <1>6, SMT
<1> HIDE DEF p, q, r
<1>8. FromBeBytes(ToBeBytes(w)) = w
  <2>1. w \in Nat /\ a \in Nat /\ b \in Nat /\ c \in Nat
        /\ p \in Int /\ q \in Int /\ r \in Int
    BY <1>1, <1>2, <1>3, <1>4, <1>7, SMT
  <2>2. p = w - a * 256 /\ q = a - b * 256 /\ r = b - c * 256
    BY <1>7
  <2>3. FromBeBytes(<<c, r, q, p>>) = w
    BY <2>1, <2>2, Assembled, SMT
  <2> QED BY <2>3, <1>7, Zenon
<1>9. ASSUME NEW i \in 1..4 PROVE ToBeBytes(w)[i] \in 0..255
  BY <1>7, SMT
<1> QED BY <1>8, <1>9, SMT

\* The eleven words of a packet.
LEMMA Words ==
    ASSUME NEW p \in FipControlPacket, NEW k \in 1..11
    PROVE  AsWords(p)[k] \in Word
<1> HIDE DEF Word
<1> QED BY SMT DEF FipControlPacket, AsWords

\* Every byte is a byte, and each word is found again at its place.
LEMMA BytesOfWord ==
    ASSUME NEW p \in FipControlPacket, NEW k \in 0..10, NEW j \in 1..4
    PROVE  /\ 4 * k + j \in 1..CONTROL_PACKET_SIZE
           /\ ToBytes(p)[4 * k + j] = ToBeBytes(AsWords(p)[k + 1])[j]
<1>1. 4 * k + j \in 1..CONTROL_PACKET_SIZE
  BY SMT DEF CONTROL_PACKET_SIZE, CONTROL_PACKET_WORDS
<1>2. ((4 * k + j - 1) \div 4) + 1 = k + 1 /\ ((4 * k + j - 1) % 4) + 1 = j
  BY SMT
<1> QED BY <1>1, <1>2, SMT DEF ToBytes

\* Word k of a packet is read back as it was.
LEMMA WordsArrive ==
    ASSUME NEW p \in FipControlPacket, NEW k \in 0..10
    PROVE  WordAt(ToBytes(p), k) = AsWords(p)[k + 1]
<1> DEFINE w == AsWords(p)[k + 1]
           bytes == ToBeBytes(w)
<1>1. w \in Word
  BY Words, k + 1 \in 1..11
<1>2. /\ ToBytes(p)[4 * k + 1] = bytes[1] /\ ToBytes(p)[4 * k + 2] = bytes[2]
      /\ ToBytes(p)[4 * k + 3] = bytes[3] /\ ToBytes(p)[4 * k + 4] = bytes[4]
  BY BytesOfWord
<1>3. <<bytes[1], bytes[2], bytes[3], bytes[4]>> = bytes
  BY SMT DEF ToBeBytes
<1>4. FromBeBytes(bytes) = w
  BY <1>1, WordSurvives
<1> HIDE DEF w, bytes
<1>5. WordAt(ToBytes(p), k) = FromBeBytes(<<bytes[1], bytes[2], bytes[3], bytes[4]>>)
  BY <1>2, SMT DEF WordAt
<1> QED BY <1>3, <1>4, <1>5 DEF w

\* What to_bytes makes of a packet are 44 bytes of which from_bytes makes the same
\* packet, whatever its eleven words: a panel that reads and writes words in the same
\* way is understood and understands (protocol.rs).
THEOREM PacketRoundTrip ==
    \A p \in FipControlPacket :
        /\ ToBytes(p) \in [1..CONTROL_PACKET_SIZE -> 0..255]
        /\ FromBytes(ToBytes(p)) = p
<1> SUFFICES ASSUME NEW p \in FipControlPacket
             PROVE  /\ ToBytes(p) \in [1..CONTROL_PACKET_SIZE -> 0..255]
                    /\ FromBytes(ToBytes(p)) = p
  OBVIOUS
<1>1. ASSUME NEW i \in 1..CONTROL_PACKET_SIZE
      PROVE  ToBeBytes(AsWords(p)[((i - 1) \div 4) + 1])[((i - 1) % 4) + 1] \in 0..255
  <2>1. ((i - 1) \div 4) + 1 \in 1..11 /\ ((i - 1) % 4) + 1 \in 1..4
    BY SMT DEF CONTROL_PACKET_SIZE, CONTROL_PACKET_WORDS
  <2> QED BY <2>1, Words, WordSurvives
<1>2. ToBytes(p) \in [1..CONTROL_PACKET_SIZE -> 0..255]
  BY <1>1 DEF ToBytes
<1>3. FromBytes(ToBytes(p)) =
        [server_id |-> AsWords(p)[1], page |-> AsWords(p)[2], data_size |-> AsWords(p)[3],
         header_error |-> AsWords(p)[4], header_info |-> AsWords(p)[5],
         request |-> AsWords(p)[6], param_1 |-> AsWords(p)[7], param_2 |-> AsWords(p)[8],
         param_3 |-> AsWords(p)[9], request_error |-> AsWords(p)[10],
         request_info |-> AsWords(p)[11]]
  <2>1. /\ WordAt(ToBytes(p), 0) = AsWords(p)[1] /\ WordAt(ToBytes(p), 1) = AsWords(p)[2]
        /\ WordAt(ToBytes(p), 2) = AsWords(p)[3] /\ WordAt(ToBytes(p), 3) = AsWords(p)[4]
        /\ WordAt(ToBytes(p), 4) = AsWords(p)[5] /\ WordAt(ToBytes(p), 5) = AsWords(p)[6]
        /\ WordAt(ToBytes(p), 6) = AsWords(p)[7] /\ WordAt(ToBytes(p), 7) = AsWords(p)[8]
        /\ WordAt(ToBytes(p), 8) = AsWords(p)[9] /\ WordAt(ToBytes(p), 9) = AsWords(p)[10]
        /\ WordAt(ToBytes(p), 10) = AsWords(p)[11]
    BY WordsArrive, SMT
  <2> QED BY <2>1 DEF FromBytes
<1>4. FromBytes(ToBytes(p)) = p
  BY <1>3, SMT DEF AsWords, FipControlPacket
<1> QED BY <1>2, <1>4

-----------------------------------------------------------------------------
(* The packets that are sent, and what a panel makes of them. *)

\* Small numbers and the size of a frame are words.
LEMMA SmallWords ==
    /\ \A n \in Nat : n < 65536 => n \in Word
    /\ FRAME_BYTES \in Word
<1>1. \A n \in Nat : n < 16777216 => n \in Word
  BY SMT DEF Word
<1>2. FRAME_BYTES = 240 * 960
  BY SMT DEF FRAME_BYTES, WIDTH, HEIGHT
<1>3. FRAME_BYTES \in Word
  BY <1>1, <1>2, SMT
<1> QED BY <1>1, <1>3, SMT

\* What is sent are packets.
LEMMA PacketsSent ==
    /\ ProbePacket \in FipControlPacket
    /\ SetImagePacket(1) \in FipControlPacket
    /\ ClearImagePacket(1) \in FipControlPacket
    /\ \A n \in 1..8, on \in BOOLEAN : SetLedPacket(1, n, on) \in FipControlPacket
<1>1. /\ \A n \in 0..24 : n \in Word
      /\ FRAME_BYTES \in Word
  BY SmallWords, SMT
<1> HIDE DEF Word, FRAME_BYTES
<1>2. 0 \in Word /\ 1 \in Word /\ 6 \in Word /\ 10 \in Word /\ 19 \in Word /\ 24 \in Word
  BY <1>1
<1>3. ProbePacket \in FipControlPacket
  BY <1>2, SMT DEF ProbePacket, FipPacket, FipControlPacket, REQ_PROBE
<1>4. SetImagePacket(1) \in FipControlPacket
  BY <1>1, <1>2, SMT DEF SetImagePacket, FipPacket, FipControlPacket, REQ_SET_IMAGE
<1>5. ClearImagePacket(1) \in FipControlPacket
  BY <1>2, SMT DEF ClearImagePacket, FipPacket, FipControlPacket, REQ_CLEAR_IMAGE
<1>6. ASSUME NEW n \in 1..8, NEW on \in BOOLEAN PROVE SetLedPacket(1, n, on) \in FipControlPacket
  <2>1. n \in Word /\ (IF on THEN 1 ELSE 0) \in Word
    BY <1>1, <1>2
  <2> QED BY <1>2, <2>1, SMT DEF SetLedPacket, FipPacket, FipControlPacket, REQ_SET_LED
<1> QED BY <1>3, <1>4, <1>5, <1>6

\* The words a panel looks at.
LEMMA WordsRead ==
    ASSUME NEW p \in FipControlPacket
    PROVE  /\ Request(ToBytes(p)) = p.request
           /\ WordAt(ToBytes(p), 1) = p.page
           /\ WordAt(ToBytes(p), 6) = p.param_1
           /\ WordAt(ToBytes(p), 7) = p.param_2
           /\ WordAt(ToBytes(p), 8) = p.param_3
<1>1. /\ WordAt(ToBytes(p), 1) = AsWords(p)[2] /\ WordAt(ToBytes(p), 5) = AsWords(p)[6]
      /\ WordAt(ToBytes(p), 6) = AsWords(p)[7] /\ WordAt(ToBytes(p), 7) = AsWords(p)[8]
      /\ WordAt(ToBytes(p), 8) = AsWords(p)[9]
  BY WordsArrive, SMT
<1> QED BY <1>1, SMT DEF Request, AsWords

\* A lamp command lights or puts out the lamp of its number, and no other.
LEMMA LampCommand ==
    ASSUME NEW n \in 1..8, NEW on \in BOOLEAN, NEW lamps, NEW payload
    PROVE  /\ LitBy(ToBytes(SetLedPacket(1, n, on)), lamps)
                = (lamps \ {Lamps[n]}) \cup (IF on THEN {Lamps[n]} ELSE {})
           /\ PictureBy(ToBytes(SetLedPacket(1, n, on)), payload) = picture
<1> DEFINE p == SetLedPacket(1, n, on)
           raw == ToBytes(p)
<1>1. p \in FipControlPacket
  BY PacketsSent
<1>2. /\ p.request = 24 /\ p.page = 1 /\ p.param_1 = 1 /\ p.param_2 = n
      /\ p.param_3 = IF on THEN 1 ELSE 0
  BY SMT DEF SetLedPacket, FipPacket, REQ_SET_LED
<1> HIDE DEF p
<1>3. /\ Request(raw) = 24 /\ WordAt(raw, 1) = 1 /\ WordAt(raw, 6) = 1
      /\ WordAt(raw, 7) = n /\ WordAt(raw, 8) = IF on THEN 1 ELSE 0
  BY <1>1, <1>2, WordsRead
<1> HIDE DEF raw
<1>4. AsksLamp(raw) /\ ~AsksScreen(raw)
  BY <1>3, SMT DEF AsksLamp, AsksScreen, REQ_SET_LED, REQ_SET_IMAGE, REQ_CLEAR_IMAGE
<1>5. (WordAt(raw, 8) = 1) <=> on
  BY <1>3, SMT
<1>6. LitBy(raw, lamps) = (lamps \ {Lamps[n]}) \cup (IF on THEN {Lamps[n]} ELSE {})
  BY <1>3, <1>4, <1>5 DEF LitBy
<1>7. PictureBy(raw, payload) = picture
  BY <1>4 DEF PictureBy
<1> QED BY <1>6, <1>7 DEF raw, p

\* A frame and a clear change the screen and no lamp.
LEMMA ScreenCommands ==
    ASSUME NEW lamps, NEW payload
    PROVE  /\ LitBy(ToBytes(SetImagePacket(1)), lamps) = lamps
           /\ LitBy(ToBytes(ClearImagePacket(1)), lamps) = lamps
           /\ PictureBy(ToBytes(SetImagePacket(1)), payload) = payload
           /\ PictureBy(ToBytes(ClearImagePacket(1)), payload) = "nothing"
<1>1. /\ Request(ToBytes(SetImagePacket(1))) = 6 /\ WordAt(ToBytes(SetImagePacket(1)), 1) = 1
      /\ Request(ToBytes(ClearImagePacket(1))) = 19
      /\ WordAt(ToBytes(ClearImagePacket(1)), 1) = 1
  <2>1. SetImagePacket(1).request = 6 /\ SetImagePacket(1).page = 1
    BY SMT DEF SetImagePacket, FipPacket, REQ_SET_IMAGE
  <2>2. ClearImagePacket(1).request = 19 /\ ClearImagePacket(1).page = 1
    BY SMT DEF ClearImagePacket, FipPacket, REQ_CLEAR_IMAGE
  <2> QED BY <2>1, <2>2, PacketsSent, WordsRead
<1> DEFINE s == ToBytes(SetImagePacket(1))
           c == ToBytes(ClearImagePacket(1))
<1>2. /\ Request(s) = 6 /\ WordAt(s, 1) = 1 /\ Request(c) = 19 /\ WordAt(c, 1) = 1
  BY <1>1
<1> HIDE DEF s, c
<1>3. /\ ~AsksLamp(s) /\ AsksScreen(s) /\ ~AsksLamp(c) /\ AsksScreen(c)
      /\ Request(s) = REQ_SET_IMAGE /\ Request(c) = REQ_CLEAR_IMAGE
      /\ Request(c) # REQ_SET_IMAGE
  BY <1>2, SMT DEF AsksLamp, AsksScreen, REQ_SET_LED, REQ_SET_IMAGE, REQ_CLEAR_IMAGE
<1>4. LitBy(s, lamps) = lamps /\ LitBy(c, lamps) = lamps
  BY <1>3 DEF LitBy
<1>5. PictureBy(s, payload) = payload /\ PictureBy(c, payload) = "nothing"
  BY <1>3 DEF PictureBy
<1> QED BY <1>4, <1>5 DEF s, c

-----------------------------------------------------------------------------
(* Replies. *)

\* A panel's reply to a packet, and what from_bytes makes of it.
LEMMA ReplyTo ==
    ASSUME NEW p \in FipControlPacket, NEW refused \in BOOLEAN
    PROVE  /\ Reply(ToBytes(p), refused) \in FipControlPacket
           /\ Reply(ToBytes(p), refused).request = p.request
           /\ Reply(ToBytes(p), refused).request_error = IF refused THEN 1 ELSE 0
<1> DEFINE r == FipPacket(Request(ToBytes(p)), WordAt(ToBytes(p), 1), 0, 0, 0, 0)
           err == IF refused THEN 1 ELSE 0
<1>1. Request(ToBytes(p)) = p.request /\ WordAt(ToBytes(p), 1) = p.page
  BY WordsRead
<1>2. 0 \in Word /\ err \in Word
  BY SmallWords, SMT
<1> HIDE DEF Word, err
<1>3. r \in FipControlPacket /\ r.request = p.request
  BY <1>1, <1>2, SMT DEF FipPacket, FipControlPacket
<1> HIDE DEF r
<1>4. /\ [r EXCEPT !.request_error = err] \in FipControlPacket
      /\ [r EXCEPT !.request_error = err].request = p.request
      /\ [r EXCEPT !.request_error = err].request_error = err
  BY <1>2, <1>3, SMT DEF FipControlPacket
<1> QED BY <1>4 DEF Reply, r, err

\* The replies in the panel: those that waited, then one for each packet, in order.
LEMMA RepliesInOrder ==
    ASSUME replies \in Seq(FipControlPacket),
           NEW packets \in Seq(FipControlPacket), NEW refused
    PROVE  LET answered == Answered(packets, refused)
           IN  /\ answered \in Seq(FipControlPacket)
               /\ Len(answered) = Len(replies) + Len(packets)
               /\ \A i \in 1..Len(replies) : answered[i] = replies[i]
               /\ \A i \in 1..Len(packets) :
                     /\ answered[Len(replies) + i].request = packets[i].request
                     /\ answered[Len(replies) + i].request_error =
                           IF i \in refused THEN 1 ELSE 0
<1> DEFINE own == [i \in DOMAIN packets |-> Reply(Raw(packets)[i], i \in refused)]
<1>1. ASSUME NEW i \in 1..Len(packets)
      PROVE  /\ own[i] \in FipControlPacket
             /\ own[i].request = packets[i].request
             /\ own[i].request_error = IF i \in refused THEN 1 ELSE 0
  <2>1. i \in DOMAIN packets /\ packets[i] \in FipControlPacket
    OBVIOUS
  <2>2. Raw(packets)[i] = ToBytes(packets[i])
    BY <2>1 DEF Raw
  <2>3. (i \in refused) \in BOOLEAN
    OBVIOUS
  <2>4. own[i] = Reply(ToBytes(packets[i]), i \in refused)
    BY <2>1, <2>2
  <2> QED BY <2>1, <2>3, <2>4, ReplyTo, Zenon
<1>2. own \in Seq(FipControlPacket) /\ Len(own) = Len(packets)
  <2>0. DOMAIN packets = 1..Len(packets)
    OBVIOUS
  <2>1. own \in [1..Len(packets) -> FipControlPacket]
    BY <1>1, <2>0, Zenon
  <2> HIDE DEF own
  <2> QED BY <2>1, SMT
<1> HIDE DEF own
<1>3. Answered(packets, refused) = replies \o own
  BY DEF Answered, own
<1> DEFINE answered == replies \o own
<1>4. /\ answered \in Seq(FipControlPacket)
      /\ Len(answered) = Len(replies) + Len(packets)
      /\ \A i \in 1..Len(replies) : answered[i] = replies[i]
      /\ \A i \in 1..Len(packets) : answered[Len(replies) + i] = own[i]
  BY <1>2, SMT
<1> HIDE DEF answered
<1> QED BY <1>1, <1>3, <1>4 DEF answered

\* transceive takes the next reply, its own or not; all it is sure of is their number.
LEMMA Exchanged ==
    ASSUME replies \in Seq(FipControlPacket),
           NEW packets \in Seq(FipControlPacket), NEW refused,
           Exchange(packets, refused)
    PROVE  /\ replies' \in Seq(FipControlPacket)
           /\ Len(replies') = Len(replies)
           /\ \A i \in 1..Len(replies) :
                 replies'[i] = Answered(packets, refused)[Len(packets) + i]
<1> DEFINE answered == Answered(packets, refused)
<1>1. answered \in Seq(FipControlPacket) /\ Len(answered) = Len(replies) + Len(packets)
  BY RepliesInOrder
<1>2. replies' = SubSeq(answered, Len(packets) + 1, Len(replies) + Len(packets))
  BY DEF Exchange
<1> HIDE DEF answered
<1>3. Len(packets) \in Nat /\ Len(replies) \in Nat
  OBVIOUS
<1>4. /\ replies' \in Seq(FipControlPacket)
      /\ Len(replies') = Len(replies)
      /\ \A i \in 1..Len(replies) : replies'[i] = answered[Len(packets) + i]
  BY <1>1, <1>2, <1>3, SMT
<1> QED BY <1>4 DEF answered

\* Replies that are not waited for are left over.
LEMMA ExchangedBut ==
    ASSUME replies \in Seq(FipControlPacket),
           NEW packets \in Seq(FipControlPacket), NEW refused,
           NEW unread \in 0..Len(packets),
           ExchangeBut(unread, packets, refused)
    PROVE  /\ replies' \in Seq(FipControlPacket)
           /\ Len(replies') = Len(replies) + unread /\ Len(replies') <= MaxStale
<1> DEFINE answered == Answered(packets, refused)
<1>1. answered \in Seq(FipControlPacket) /\ Len(answered) = Len(replies) + Len(packets)
  BY RepliesInOrder
<1>2. /\ replies' = SubSeq(answered, Len(packets) - unread + 1, Len(replies) + Len(packets))
      /\ Len(replies) + unread <= MaxStale
  BY DEF ExchangeBut
<1> HIDE DEF answered
<1>3. Len(packets) \in Nat /\ Len(replies) \in Nat /\ unread \in Nat /\ unread <= Len(packets)
  OBVIOUS
<1> QED BY <1>1, <1>2, <1>3, SMT

\* The reply that is taken: the oldest that waits, or else that to the first packet.
LEMMA ReplyTaken ==
    ASSUME replies \in Seq(FipControlPacket),
           NEW packets \in Seq(FipControlPacket), NEW refused,
           Len(packets) >= 1
    PROVE  LET reply == Received(packets, refused)
           IN  /\ replies # <<>> => reply = replies[1]
               /\ replies = <<>> => /\ reply.request = packets[1].request
                                    /\ reply.request_error = IF 1 \in refused THEN 1 ELSE 0
<1> DEFINE answered == Answered(packets, refused)
<1>1. /\ answered \in Seq(FipControlPacket) /\ Len(answered) = Len(replies) + Len(packets)
      /\ \A i \in 1..Len(replies) : answered[i] = replies[i]
      /\ \A i \in 1..Len(packets) :
            /\ answered[Len(replies) + i].request = packets[i].request
            /\ answered[Len(replies) + i].request_error = IF i \in refused THEN 1 ELSE 0
  BY RepliesInOrder
<1>2. answered[1] \in FipControlPacket
  BY <1>1, SMT
<1>3. Received(packets, refused) = answered[1]
  BY <1>2, PacketRoundTrip DEF Received
<1> HIDE DEF answered
<1>4. replies # <<>> => answered[1] = replies[1]
  BY <1>1, SMT
<1>5. replies = <<>> => Len(replies) + 1 = 1
  BY SMT
<1> QED BY <1>1, <1>3, <1>4, <1>5, 1 \in 1..Len(packets), SMT

-----------------------------------------------------------------------------
(* Lamps. *)

\* Every button has its lamp, and led_index numbers it as the panel does.
LEMMA LampOfButton ==
    ASSUME NEW b \in DOMAIN BUTTON_CONTROLS
    PROVE  /\ b \in DOMAIN LED_INDEX
           /\ LedIndex(b) \in 1..8
           /\ Lamps[LedIndex(b)] = BUTTON_CONTROLS[b]
           /\ BUTTON_CONTROLS[b] \in LampNames
<1>1. b \in {"up", "down", "s1", "s2", "s3", "s4", "s5", "s6"}
  BY DEF BUTTON_CONTROLS
<1> QED BY <1>1, SMT DEF LED_INDEX, LedIndex, Lamps, BUTTON_CONTROLS, LampNames

\* No two controls share a lamp and no two numbers one.
LEMMA ButtonOfLamp ==
    /\ \A b \in DOMAIN LED_INDEX : b \in DOMAIN BUTTON_CONTROLS
    /\ \A b, c \in DOMAIN BUTTON_CONTROLS : BUTTON_CONTROLS[b] = BUTTON_CONTROLS[c] => b = c
    /\ \A i, j \in 1..8 : Lamps[i] = Lamps[j] => i = j
    /\ \A i \in 1..8 : Lamps[i] \in LampNames
<1>1. \A b \in DOMAIN LED_INDEX : b \in DOMAIN BUTTON_CONTROLS
  BY SMT DEF LED_INDEX, BUTTON_CONTROLS
<1>2. \A b, c \in DOMAIN BUTTON_CONTROLS : BUTTON_CONTROLS[b] = BUTTON_CONTROLS[c] => b = c
  BY SMT DEF BUTTON_CONTROLS
<1>3. \A i, j \in 1..8 : Lamps[i] = Lamps[j] => i = j
  BY SMT DEF Lamps
<1>4. \A i \in 1..8 : Lamps[i] \in LampNames
  BY SMT DEF Lamps, LampNames
<1> QED BY <1>1, <1>2, <1>3, <1>4

\* A function from 1 to n is a sequence, and so is the beginning of a sequence.
LEMMA Beginning ==
    ASSUME NEW S, NEW n \in Nat, NEW f \in [1..n -> S], NEW m \in 0..n
    PROVE  /\ f \in Seq(S) /\ Len(f) = n
           /\ SubSeq(f, 1, m) \in Seq(S) /\ Len(SubSeq(f, 1, m)) = m
           /\ \A i \in 1..m : SubSeq(f, 1, m)[i] = f[i]
<1>1. f \in Seq(S) /\ Len(f) = n
  BY SMT
<1> QED BY <1>1, SMT

\* The packets put out the first n lamps, one by one.
PutsOut(packets, n) ==
    /\ packets \in Seq(FipControlPacket) /\ Len(packets) = n
    /\ \A i \in 1..n : packets[i] = SetLedPacket(1, i, FALSE)

\* The packets of clear_leds, all of them or up to the n-th.
LEMMA ClearLedsAre ==
    /\ PutsOut(ClearLeds, 8)
    /\ \A n \in 0..8 : PutsOut(SubSeq(ClearLeds, 1, n), n)
<1>1. \A i \in 1..8 : SetLedPacket(1, i, FALSE) \in FipControlPacket
  BY PacketsSent
<1> HIDE DEF FipControlPacket
<1>2. /\ ClearLeds \in [1..8 -> FipControlPacket]
      /\ \A i \in 1..8 : ClearLeds[i] = SetLedPacket(1, i, FALSE)
  BY <1>1 DEF ClearLeds, DEFAULT_PAGE_ID
<1>3. ClearLeds \in Seq(FipControlPacket) /\ Len(ClearLeds) = 8
  <2>1. ASSUME NEW k \in Nat, k = 8
        PROVE  ClearLeds \in Seq(FipControlPacket) /\ Len(ClearLeds) = k
    <3>1. ClearLeds \in [1..k -> FipControlPacket] /\ 0 \in 0..k
      BY <1>2, <2>1, SMT
    <3> QED BY <3>1, Beginning, SMT
  <2> QED BY <2>1
<1>4. ASSUME NEW n \in 0..8
      PROVE  /\ SubSeq(ClearLeds, 1, n) \in Seq(FipControlPacket)
             /\ Len(SubSeq(ClearLeds, 1, n)) = n
             /\ \A i \in 1..n : SubSeq(ClearLeds, 1, n)[i] = SetLedPacket(1, i, FALSE)
  <2>1. n \in 0..8 /\ 8 \in Nat /\ \A i \in 1..n : i \in 1..8
    BY SMT
  <2>2. /\ SubSeq(ClearLeds, 1, n) \in Seq(FipControlPacket)
        /\ Len(SubSeq(ClearLeds, 1, n)) = n
        /\ \A i \in 1..n : SubSeq(ClearLeds, 1, n)[i] = ClearLeds[i]
    BY <1>2, <2>1, Beginning, SMT
  <2> QED BY <1>2, <2>1, <2>2, Zenon
<1> QED BY <1>2, <1>3, <1>4, Zenon DEF PutsOut

\* The lamps still lit after them.
LEMMA LampsKeptAre ==
    ASSUME NEW n \in 0..8, NEW packets, NEW refused, PutsOut(packets, n)
    PROVE  LampsKept(packets, refused) = {l \in lit : \A i \in (1..n) \ refused : l # Lamps[i]}
<1>1. DOMAIN packets = 1..n
  BY DEF PutsOut
<1>2. ASSUME NEW i \in 1..n
      PROVE  LitBy(Raw(packets)[i], lit) = lit \ {Lamps[i]}
  <2>1. Raw(packets)[i] = ToBytes(packets[i])
    BY <1>1 DEF Raw
  <2>5. i \in 1..8
    BY SMT
  <2>2. packets[i] = SetLedPacket(1, i, FALSE)
    BY Zenon DEF PutsOut
  <2>3. LitBy(ToBytes(SetLedPacket(1, i, FALSE)), lit)
          = (lit \ {Lamps[i]}) \cup (IF FALSE THEN {Lamps[i]} ELSE {})
    BY <2>5, LampCommand, Zenon
  <2>4. LitBy(ToBytes(SetLedPacket(1, i, FALSE)), lit) = lit \ {Lamps[i]}
    BY <2>3, Zenon
  <2> QED BY <2>1, <2>2, <2>4, Zenon
<1>3. \A l \in lit :
        (\A i \in DOMAIN packets \ refused : l \in LitBy(Raw(packets)[i], lit))
          <=> (\A i \in (1..n) \ refused : l # Lamps[i])
  BY <1>1, <1>2
<1> QED BY <1>3 DEF LampsKept

\* They are those still ordered.
LEMMA StillAsOrdered ==
    ASSUME LampsAsOrdered, ordered \subseteq DOMAIN BUTTON_CONTROLS,
           NEW n \in 0..8, NEW refused
    PROVE  {l \in lit : \A i \in (1..n) \ refused : l # Lamps[i]}
             = {BUTTON_CONTROLS[b] : b \in OrdersKept(1..n, refused)}
<1>1. ASSUME NEW l \in lit, \A i \in (1..n) \ refused : l # Lamps[i]
      PROVE  \E b \in OrdersKept(1..n, refused) : l = BUTTON_CONTROLS[b]
  <2>1. PICK b \in ordered : l = BUTTON_CONTROLS[b]
    BY DEF LampsAsOrdered
  <2>2. LedIndex(b) \in 1..8 /\ Lamps[LedIndex(b)] = BUTTON_CONTROLS[b]
    BY LampOfButton
  <2>3. LedIndex(b) \notin (1..n) \ refused
    BY <1>1, <2>1, <2>2
  <2> QED BY <2>1, <2>2, <2>3 DEF OrdersKept
<1>2. ASSUME NEW b \in OrdersKept(1..n, refused)
      PROVE  /\ BUTTON_CONTROLS[b] \in lit
             /\ \A i \in (1..n) \ refused : BUTTON_CONTROLS[b] # Lamps[i]
  <2>1. PICK j \in 1..8 : Lamps[j] = BUTTON_CONTROLS[b] /\ j \notin (1..n) \ refused
    BY DEF OrdersKept
  <2>2. BUTTON_CONTROLS[b] \in lit
    BY DEF OrdersKept, LampsAsOrdered
  <2>3. \A i \in 1..n : i \in 1..8
    OBVIOUS
  <2> QED BY <2>1, <2>2, <2>3, ButtonOfLamp
<1> QED BY <1>1, <1>2

\* One command lights or puts out the lamp of its control.
LEMMA OneMoreLamp ==
    ASSUME LampsAsOrdered, ordered \subseteq DOMAIN BUTTON_CONTROLS,
           NEW b \in DOMAIN BUTTON_CONTROLS
    PROVE  /\ (lit \ {Lamps[LedIndex(b)]}) \cup {Lamps[LedIndex(b)]}
                = {BUTTON_CONTROLS[c] : c \in ordered \cup {b}}
           /\ lit \ {Lamps[LedIndex(b)]} = {BUTTON_CONTROLS[c] : c \in ordered \ {b}}
<1>1. Lamps[LedIndex(b)] = BUTTON_CONTROLS[b]
  BY LampOfButton
<1>2. lit = {BUTTON_CONTROLS[c] : c \in ordered}
  BY DEF LampsAsOrdered
<1>3. \A c \in ordered : BUTTON_CONTROLS[c] = BUTTON_CONTROLS[b] => c = b
  BY ButtonOfLamp
<1> HIDE DEF BUTTON_CONTROLS
<1> QED BY <1>1, <1>2, <1>3

\* A reset clears the lamps, those whose packet is refused excepted.
LEMMA LampsCleared ==
    ASSUME LampsAsOrdered, ordered \subseteq DOMAIN BUTTON_CONTROLS,
           NEW n \in 0..8, NEW refused, NEW packets, PutsOut(packets, n),
           lit' = LampsKept(packets, refused),
           ordered' = OrdersKept(1..n, refused)
    PROVE  LampsAsOrdered' /\ (ordered \subseteq DOMAIN BUTTON_CONTROLS)'
<1>0. LampsKept(packets, refused) = {l \in lit : \A i \in (1..n) \ refused : l # Lamps[i]}
  BY LampsKeptAre
<1>1. lit' = {l \in lit : \A i \in (1..n) \ refused : l # Lamps[i]}
  BY <1>0, Zenon
<1>2. lit' = {BUTTON_CONTROLS[b] : b \in ordered'}
  BY <1>1, StillAsOrdered
<1>3. ordered' \subseteq ordered
  BY DEF OrdersKept
<1> QED BY <1>2, <1>3 DEF LampsAsOrdered

-----------------------------------------------------------------------------
(* Outputs. *)

\* What the worker carries out of a body is one of three things.
LEMMA OutputKinds ==
    ASSUME NEW body, ~Ignored(HardwareOutputFromBody(body))
    PROVE  LET o == HardwareOutputFromBody(body)
           IN  \/ /\ o.kind = "SetLed" /\ o.control_id \in DOMAIN LED_INDEX
                  /\ o.value \in {"true", "false"}
               \/ o.kind = "SetRasterFrame"
               \/ o.kind = "ClearRaster"
<1> DEFINE o == HardwareOutputFromBody(body)
<1>1. o # Unsupported
  BY DEF Ignored
<1>2. CASE LedSet(body)
  <2>1. o = HardwareOutput("SetLed", body.control_id, body.params["on"])
    BY <1>2 DEF HardwareOutputFromBody
  <2>2. body.control_id \in DOMAIN LED_INDEX /\ body.params["on"] \in {"true", "false"}
    BY <1>2 DEF LedSet, HasLed
  <2> QED BY <2>1, <2>2 DEF HardwareOutput
<1>3. CASE ~LedSet(body) /\ SetFrame(body)
  BY <1>3 DEF HardwareOutputFromBody, HardwareOutput
<1>4. CASE ~LedSet(body) /\ ~SetFrame(body)
  BY <1>1, <1>4 DEF HardwareOutputFromBody, HardwareOutput
<1> QED BY <1>2, <1>3, <1>4

\* Its packet.
LEMMA PacketOfOutput ==
    ASSUME NEW o,
           \/ /\ o.kind = "SetLed" /\ o.control_id \in DOMAIN LED_INDEX
              /\ o.value \in {"true", "false"}
           \/ o.kind = "SetRasterFrame"
           \/ o.kind = "ClearRaster"
    PROVE  /\ PacketOf(o) \in FipControlPacket
           /\ o.kind = "SetLed" =>
                 /\ o.control_id \in DOMAIN BUTTON_CONTROLS
                 /\ PacketOf(o) = SetLedPacket(1, LedIndex(o.control_id), o.value = "true")
           /\ o.kind = "SetRasterFrame" => PacketOf(o) = SetImagePacket(1)
           /\ o.kind = "ClearRaster" => PacketOf(o) = ClearImagePacket(1)
           /\ o.kind # "SetRasterFrame" => PacketOf(o).request # REQ_SET_IMAGE
<1>1. CASE o.kind = "SetLed"
  <2>1. /\ o.control_id \in DOMAIN BUTTON_CONTROLS
        /\ LedIndex(o.control_id) \in 1..8 /\ (o.value = "true") \in BOOLEAN
    BY <1>1, ButtonOfLamp, LampOfButton
  <2>2. PacketOf(o) = SetLedPacket(1, LedIndex(o.control_id), o.value = "true")
    BY <1>1, Zenon DEF PacketOf, DEFAULT_PAGE_ID
  <2>3. SetLedPacket(1, LedIndex(o.control_id), o.value = "true") \in FipControlPacket
    BY <2>1, PacketsSent, Zenon
  <2>4. PacketOf(o).request # REQ_SET_IMAGE
    BY <2>2, SMT DEF SetLedPacket, FipPacket, REQ_SET_LED, REQ_SET_IMAGE
  <2> QED BY <1>1, <2>1, <2>2, <2>3, <2>4
<1>2. CASE o.kind = "SetRasterFrame"
  <2>1. PacketOf(o) = SetImagePacket(1)
    BY <1>2 DEF PacketOf, DEFAULT_PAGE_ID
  <2> QED BY <1>2, <2>1, PacketsSent
<1>3. CASE o.kind = "ClearRaster"
  <2>1. PacketOf(o) = ClearImagePacket(1)
    BY <1>3 DEF PacketOf, DEFAULT_PAGE_ID
  <2>2. PacketOf(o).request # REQ_SET_IMAGE
    BY <2>1, SMT DEF ClearImagePacket, FipPacket, REQ_CLEAR_IMAGE, REQ_SET_IMAGE
  <2> QED BY <1>3, <2>1, <2>2, PacketsSent
<1> QED BY <1>1, <1>2, <1>3

\* Carried out, it keeps the lamps as they are ordered.
LEMMA CarriedOut ==
    ASSUME LampsAsOrdered, ordered \subseteq DOMAIN BUTTON_CONTROLS,
           NEW body, NEW refused,
           ~Ignored(HardwareOutputFromBody(body)),
           CarryOut(HardwareOutputFromBody(body), refused)
    PROVE  LampsAsOrdered' /\ (ordered \subseteq DOMAIN BUTTON_CONTROLS)'
<1> DEFINE o == HardwareOutputFromBody(body)
<1>1. \/ /\ o.kind = "SetLed" /\ o.control_id \in DOMAIN LED_INDEX
         /\ o.value \in {"true", "false"}
      \/ o.kind = "SetRasterFrame"
      \/ o.kind = "ClearRaster"
  BY OutputKinds
<1>2. CarryOut(o, refused)
  OBVIOUS
<1> HIDE DEF o
<1>3. CASE refused
  BY <1>2, <1>3 DEF CarryOut, LampsAsOrdered
<1>4. CASE ~refused
  <2> DEFINE b == o.control_id
  <2>1. CASE o.kind = "SetLed"
    <3>1. /\ b \in DOMAIN BUTTON_CONTROLS
          /\ PacketOf(o) = SetLedPacket(1, LedIndex(b), o.value = "true")
      BY <1>1, <2>1, PacketOfOutput
    <3>2. LedIndex(b) \in 1..8 /\ (o.value = "true") \in BOOLEAN
      BY <3>1, LampOfButton
    <3>3. lit' = (lit \ {Lamps[LedIndex(b)]})
                    \cup (IF o.value = "true" THEN {Lamps[LedIndex(b)]} ELSE {})
      <4>1. lit' = LitBy(ToBytes(SetLedPacket(1, LedIndex(b), o.value = "true")), lit)
        BY <1>2, <1>4, <3>1, Zenon DEF CarryOut
      <4> QED BY <3>2, <4>1, LampCommand, Zenon
    <3>4. CASE o.value = "true"
      <4>1. ordered' = ordered \cup {b}
        BY <1>2, <1>4, <2>1, <3>4 DEF CarryOut
      <4>2. lit' = (lit \ {Lamps[LedIndex(b)]}) \cup {Lamps[LedIndex(b)]}
        BY <3>3, <3>4
      <4> QED BY <3>1, <4>1, <4>2, OneMoreLamp DEF LampsAsOrdered
    <3>5. CASE o.value = "false"
      <4>1. ordered' = ordered \ {b}
        BY <1>2, <1>4, <2>1, <3>5 DEF CarryOut
      <4>2. lit' = lit \ {Lamps[LedIndex(b)]}
        BY <3>3, <3>5
      <4> QED BY <3>1, <4>1, <4>2, OneMoreLamp DEF LampsAsOrdered
    <3> QED BY <1>1, <2>1, <3>4, <3>5
  <2>2. CASE o.kind # "SetLed"
    <3>1. PacketOf(o) = SetImagePacket(1) \/ PacketOf(o) = ClearImagePacket(1)
      BY <1>1, <2>2, PacketOfOutput
    <3>2. lit' = lit
      BY <1>2, <1>4, <3>1, ScreenCommands DEF CarryOut
    <3>3. ordered' = ordered
      BY <1>2, <1>4, <2>2 DEF CarryOut
    <3> QED BY <3>2, <3>3 DEF LampsAsOrdered
  <2> QED BY <2>1, <2>2
<1> QED BY <1>3, <1>4

-----------------------------------------------------------------------------
(* The lamps, step by step. *)

LampInv == LampsAsOrdered /\ ordered \subseteq DOMAIN BUTTON_CONTROLS

LEMMA LampInit == Init => LampInv
BY SMT DEF Init, LampInv, LampsAsOrdered, BUTTON_CONTROLS

\* No step leaves a lamp otherwise than ordered.
LEMMA LampStep ==
    ASSUME LampInv, [Next]_vars
    PROVE  LampInv'
<1>1. LampsAsOrdered /\ ordered \subseteq DOMAIN BUTTON_CONTROLS
  BY DEF LampInv
<1>2. ASSUME NEW refused, lit' = LampsKept(ClearLeds, refused), ordered' = OrdersKept(1..8, refused)
      PROVE  LampInv'
  <2>1. 8 \in 0..8
    OBVIOUS
  <2> QED BY <1>1, <1>2, <2>1, ClearLedsAre, LampsCleared DEF LampInv
<1>3. ASSUME NEW n \in 0..8, lit' = LampsKept(SubSeq(ClearLeds, 1, n), {}),
             ordered' = OrdersKept(1..n, {})
      PROVE  LampInv'
  BY <1>1, <1>3, ClearLedsAre, LampsCleared DEF LampInv
<1>4. ASSUME UNCHANGED <<lit, ordered>> PROVE LampInv'
  BY <1>1, <1>4 DEF LampInv, LampsAsOrdered
<1>5. ASSUME NEW c \in Touched, Touch(c) PROVE LampInv'
  BY <1>5, <1>4 DEF Touch, panel
<1>6. ASSUME NEW input \in BOOLEAN, Connect(input) PROVE LampInv'
  BY <1>6, <1>2 DEF Connect
<1>7. CASE ConnectFails
  BY <1>7, <1>3, <1>4 DEF ConnectFails
<1>8. CASE StopOrFail
  <2>1. CASE ResetPanel
    BY <2>1, <1>2 DEF ResetPanel
  <2>2. CASE ResetFails
    BY <2>2, <1>3 DEF ResetFails
  <2>3. CASE UNCHANGED <<hand, panel, ordered>>
    BY <2>3, <1>4 DEF panel
  <2>4. CASE lit' = {} /\ ordered' = {}
    BY <2>4 DEF LampInv, LampsAsOrdered
  <2> QED BY <1>8, <2>1, <2>2, <2>3, <2>4 DEF StopOrFail
<1>9. CASE ReadReport
  BY <1>9, <1>4 DEF ReadReport, panel
<1>10. CASE ShortReport
  BY <1>10, <1>4 DEF ShortReport, panel
<1>11. CASE ResetDevice
  BY <1>11, <1>2 DEF ResetDevice, ResetPanel
<1>12. CASE ShowNotice
  BY <1>12, <1>4 DEF ShowNotice
<1>13. ASSUME NEW body \in Bodies, Ignore(body) \/ Undecodable(body) PROVE LampInv'
  BY <1>13, <1>4 DEF Ignore, Undecodable, panel
<1>14. ASSUME NEW body \in Bodies, Apply(body) \/ Interrupted(body) PROVE LampInv'
  <2>1. PICK refused \in BOOLEAN :
          /\ ~Ignored(HardwareOutputFromBody(body))
          /\ CarryOut(HardwareOutputFromBody(body), refused)
    BY <1>14 DEF Apply, Interrupted
  <2> QED BY <1>1, <2>1, CarriedOut DEF LampInv
<1>15. CASE UNCHANGED vars
  BY <1>15, <1>4 DEF vars, panel
<1> QED BY <1>5, <1>6, <1>7, <1>8, <1>9, <1>10, <1>11, <1>12, <1>13, <1>14, <1>15 DEF Next

\* A lamp is lit exactly if the last command of its control that the panel agreed to was
\* to light it, whatever the panel refuses and wherever the USB fails: led_index of
\* manager.rs numbers the lamps as their controls are labelled, and clear_leds reaches
\* every one of them.
THEOREM LampsInOrder == Spec => []LampsAsOrdered
<1>1. Init => LampInv
  BY LampInit
<1>2. LampInv /\ [Next]_vars => LampInv'
  BY LampStep
<1>3. LampInv => LampsAsOrdered
  BY DEF LampInv
<1> QED BY <1>1, <1>2, <1>3, PTL DEF Spec

-----------------------------------------------------------------------------
(* The screen, step by step. *)

\* Packets that are no frame.
NoFrame(packets) ==
    /\ packets \in Seq(FipControlPacket)
    /\ \A i \in 1..Len(packets) : packets[i].request # REQ_SET_IMAGE

\* Packets that are no frame, one list after another.
LEMMA NoFrameAfter ==
    ASSUME NEW first, NEW second, NoFrame(first), NoFrame(second)
    PROVE  NoFrame(first \o second) /\ Len(first \o second) = Len(first) + Len(second)
BY SMT DEF NoFrame

\* The packets that are sent in one go.
LEMMA PacketLists ==
    /\ NoFrame(<<ProbePacket>>) /\ NoFrame(<<ClearImagePacket(1)>>)
    /\ NoFrame(ClearLeds) /\ Len(ClearLeds) = 8
    /\ NoFrame(<<ProbePacket>> \o ClearLeds) /\ Len(<<ProbePacket>> \o ClearLeds) = 9
    /\ NoFrame(Append(ClearLeds, ClearImagePacket(1)))
    /\ \A n \in 0..8 :
          /\ NoFrame(<<ProbePacket>> \o SubSeq(ClearLeds, 1, n))
          /\ Len(<<ProbePacket>> \o SubSeq(ClearLeds, 1, n)) = n + 1
          /\ NoFrame(SubSeq(ClearLeds, 1, n) \o <<ClearImagePacket(1)>>)
          /\ Len(SubSeq(ClearLeds, 1, n) \o <<ClearImagePacket(1)>>) = n + 1
          /\ NoFrame(SubSeq(ClearLeds, 1, n) \o <<>>)
          /\ Len(SubSeq(ClearLeds, 1, n) \o <<>>) = n
<1>1. ASSUME NEW n \in 0..8, NEW packets, PutsOut(packets, n)
      PROVE  NoFrame(packets) /\ Len(packets) = n
  <2>1. ASSUME NEW i \in 1..n PROVE packets[i].request # REQ_SET_IMAGE
    <3>1. packets[i] = SetLedPacket(1, i, FALSE)
      BY <1>1 DEF PutsOut
    <3> QED BY <3>1 DEF SetLedPacket, FipPacket, REQ_SET_LED, REQ_SET_IMAGE
  <2>2. packets \in Seq(FipControlPacket) /\ Len(packets) = n
    BY <1>1 DEF PutsOut
  <2> QED BY <2>1, <2>2 DEF NoFrame
<1>2. ASSUME NEW p \in FipControlPacket, p.request # REQ_SET_IMAGE
      PROVE  NoFrame(<<p>>) /\ Len(<<p>>) = 1
  BY <1>2 DEF NoFrame
<1>3. /\ ProbePacket.request # REQ_SET_IMAGE /\ ClearImagePacket(1).request # REQ_SET_IMAGE
  BY SMT DEF ProbePacket, ClearImagePacket, FipPacket, REQ_PROBE, REQ_CLEAR_IMAGE, REQ_SET_IMAGE
<1>4. /\ NoFrame(<<ProbePacket>>) /\ Len(<<ProbePacket>>) = 1
      /\ NoFrame(<<ClearImagePacket(1)>>) /\ Len(<<ClearImagePacket(1)>>) = 1
  BY <1>2, <1>3, PacketsSent
<1>5. 8 \in 0..8
  OBVIOUS
<1>6. NoFrame(ClearLeds) /\ Len(ClearLeds) = 8
  BY <1>1, <1>5, ClearLedsAre
<1>7. ASSUME NEW n \in 0..8
      PROVE  NoFrame(SubSeq(ClearLeds, 1, n)) /\ Len(SubSeq(ClearLeds, 1, n)) = n
  BY <1>1, ClearLedsAre
<1>8. ASSUME NEW packets, NoFrame(packets)
      PROVE  /\ Append(packets, ClearImagePacket(1)) = packets \o <<ClearImagePacket(1)>>
             /\ packets \o <<>> = packets
  <2>1. packets \in Seq(FipControlPacket) /\ ClearImagePacket(1) \in FipControlPacket
    BY <1>8, PacketsSent DEF NoFrame
  <2> QED BY <2>1
<1>9. NoFrame(<<ProbePacket>> \o ClearLeds) /\ Len(<<ProbePacket>> \o ClearLeds) = 9
  <2>1. /\ NoFrame(<<ProbePacket>> \o ClearLeds)
        /\ Len(<<ProbePacket>> \o ClearLeds) = Len(<<ProbePacket>>) + Len(ClearLeds)
    BY <1>4, <1>6, NoFrameAfter, Zenon
  <2> QED BY <1>4, <1>6, <2>1
<1>10. NoFrame(Append(ClearLeds, ClearImagePacket(1)))
  BY <1>4, <1>6, <1>8, NoFrameAfter
<1>11. ASSUME NEW n \in 0..8
       PROVE  /\ NoFrame(<<ProbePacket>> \o SubSeq(ClearLeds, 1, n))
              /\ Len(<<ProbePacket>> \o SubSeq(ClearLeds, 1, n)) = n + 1
              /\ NoFrame(SubSeq(ClearLeds, 1, n) \o <<ClearImagePacket(1)>>)
              /\ Len(SubSeq(ClearLeds, 1, n) \o <<ClearImagePacket(1)>>) = n + 1
              /\ NoFrame(SubSeq(ClearLeds, 1, n) \o <<>>)
              /\ Len(SubSeq(ClearLeds, 1, n) \o <<>>) = n
  <2> DEFINE first == SubSeq(ClearLeds, 1, n)
  <2>1. NoFrame(first) /\ Len(first) = n
    BY <1>7
  <2> HIDE DEF first
  <2>2. /\ NoFrame(<<ProbePacket>> \o first)
        /\ Len(<<ProbePacket>> \o first) = Len(<<ProbePacket>>) + Len(first)
        /\ NoFrame(first \o <<ClearImagePacket(1)>>)
        /\ Len(first \o <<ClearImagePacket(1)>>) = Len(first) + Len(<<ClearImagePacket(1)>>)
        /\ first \o <<>> = first
    BY <1>4, <1>8, <2>1, NoFrameAfter, Zenon
  <2>3. /\ Len(<<ProbePacket>> \o first) = n + 1
        /\ Len(first \o <<ClearImagePacket(1)>>) = n + 1
    BY <1>4, <2>1, <2>2
  <2> QED BY <2>1, <2>2, <2>3, Zenon DEF first
<1> QED BY <1>4, <1>6, <1>7, <1>9, <1>10, <1>11

\* What waits in the panel are replies, and few enough; none of them answers a frame.
RepliesTyped == replies \in Seq(FipControlPacket) /\ Len(replies) <= MaxStale
NoFrameReply == \A i \in 1..Len(replies) : replies[i].request # REQ_SET_IMAGE

\* An exchange keeps the number of the replies, and brings in no frame's.
LEMMA ExchangeKeeps ==
    ASSUME RepliesTyped, NEW packets, NEW refused,
           NoFrame(packets), Exchange(packets, refused)
    PROVE  /\ RepliesTyped'
           /\ NoFrameReply \/ Len(replies) <= Len(packets) => NoFrameReply'
<1> DEFINE answered == Answered(packets, refused)
<1>1. replies \in Seq(FipControlPacket) /\ Len(replies) <= MaxStale
      /\ packets \in Seq(FipControlPacket)
  BY DEF RepliesTyped, NoFrame
<1>2. /\ Len(answered) = Len(replies) + Len(packets)
      /\ \A i \in 1..Len(replies) : answered[i] = replies[i]
      /\ \A i \in 1..Len(packets) : answered[Len(replies) + i].request = packets[i].request
  BY <1>1, RepliesInOrder
<1>3. /\ replies' \in Seq(FipControlPacket) /\ Len(replies') = Len(replies)
      /\ \A i \in 1..Len(replies) : replies'[i] = answered[Len(packets) + i]
  BY <1>1, Exchanged
<1> HIDE DEF answered
<1>4. RepliesTyped'
  BY <1>1, <1>3 DEF RepliesTyped
<1>5. ASSUME NoFrameReply \/ Len(replies) <= Len(packets), NEW i \in 1..Len(replies)
      PROVE  replies'[i].request # REQ_SET_IMAGE
  <2>1. replies'[i] = answered[Len(packets) + i]
    BY <1>3
  <2>2. CASE Len(packets) + i <= Len(replies)
    <3>1. Len(packets) + i \in 1..Len(replies) /\ ~(Len(replies) <= Len(packets))
      BY <1>1, <2>2
    <3>2. answered[Len(packets) + i] = replies[Len(packets) + i]
      BY <1>2, <3>1
    <3> QED BY <1>5, <2>1, <3>1, <3>2 DEF NoFrameReply
  <2>3. CASE Len(packets) + i > Len(replies)
    <3> DEFINE j == Len(packets) + i - Len(replies)
    <3>1. j \in 1..Len(packets) /\ Len(replies) + j = Len(packets) + i
      BY <1>1, <2>3
    <3>2. answered[Len(replies) + j].request = packets[j].request
      BY <1>2, <3>1
    <3> QED BY <2>1, <3>1, <3>2 DEF NoFrame
  <2> QED BY <1>1, <2>2, <2>3
<1> QED BY <1>3, <1>4, <1>5 DEF NoFrameReply

\* Nor do lost ones do more than add replies.
LEMMA LossTyped ==
    ASSUME RepliesTyped, NEW packets \in Seq(FipControlPacket), NEW refused,
           NEW unread \in 0..Len(packets),
           Exchange(packets, refused) \/ ExchangeBut(unread, packets, refused)
    PROVE  RepliesTyped'
<1>1. CASE Exchange(packets, refused)
  BY <1>1, Exchanged DEF RepliesTyped
<1>2. CASE ExchangeBut(unread, packets, refused)
  BY <1>2, ExchangedBut DEF RepliesTyped
<1> QED BY <1>1, <1>2

\* A frame is taken for displayed only if no reply waited and the panel agreed.
LEMMA FrameAccepted ==
    ASSUME RepliesTyped, NoFrameReply, NEW refused \in BOOLEAN,
           ValidSetImageReply(Received(<<SetImagePacket(1)>>, Refused(refused)), 1)
    PROVE  replies = <<>> /\ ~refused
<1> DEFINE packets == <<SetImagePacket(1)>>
           reply == Received(packets, Refused(refused))
<1>1. packets \in Seq(FipControlPacket) /\ Len(packets) = 1 /\ replies \in Seq(FipControlPacket)
  BY PacketsSent DEF RepliesTyped
<1>2. reply.request = REQ_SET_IMAGE /\ reply.request_error = 0
  BY DEF ValidSetImageReply
<1> HIDE DEF packets
<1>3. /\ replies # <<>> => reply = replies[1]
      /\ replies = <<>> => reply.request_error = IF 1 \in Refused(refused) THEN 1 ELSE 0
  <2>1. Len(packets) >= 1 /\ replies \in Seq(FipControlPacket) /\ packets \in Seq(FipControlPacket)
    BY <1>1
  <2> QED BY <2>1, ReplyTaken, Zenon
<1> HIDE DEF reply
<1>4. replies = <<>>
  <2>1. ASSUME replies # <<>> PROVE FALSE
    <3>1. 1 \in 1..Len(replies)
      BY <1>1, <2>1
    <3> QED BY <1>2, <1>3, <2>1, <3>1 DEF NoFrameReply
  <2> QED BY <2>1
<1>5. 1 \notin Refused(refused)
  BY <1>2, <1>3, <1>4
<1> QED BY <1>4, <1>5 DEF Refused

\* What waits in the panel are replies, whatever is lost.
LEMMA RepliesStep ==
    ASSUME RepliesTyped, [Next]_vars
    PROVE  RepliesTyped'
<1>1. ASSUME NEW packets, NEW refused, NoFrame(packets), Len(packets) >= 1,
             Exchange(packets, refused) \/ ExchangeButLast(packets, refused)
      PROVE  RepliesTyped'
  <2>1. packets \in Seq(FipControlPacket) /\ 1 \in 0..Len(packets)
    BY <1>1 DEF NoFrame
  <2>2. Exchange(packets, refused) \/ ExchangeBut(1, packets, refused)
    BY <1>1 DEF ExchangeButLast
  <2> QED BY <2>1, <2>2, LossTyped
<1>2. ASSUME NEW p \in FipControlPacket, NEW refused,
             Exchange(<<p>>, refused) \/ ExchangeButLast(<<p>>, refused)
      PROVE  RepliesTyped'
  <2> DEFINE packets == <<p>>
  <2>1. packets \in Seq(FipControlPacket) /\ 1 \in 0..Len(packets)
    OBVIOUS
  <2>2. Exchange(packets, refused) \/ ExchangeBut(1, packets, refused)
    BY <1>2 DEF ExchangeButLast
  <2> HIDE DEF packets
  <2> QED BY <2>1, <2>2, LossTyped
<1>3. ASSUME UNCHANGED replies PROVE RepliesTyped'
  BY <1>3 DEF RepliesTyped
<1>4. ASSUME NEW c \in Touched, Touch(c) PROVE RepliesTyped'
  BY <1>3, <1>4 DEF Touch, panel
<1>5. ASSUME NEW input \in BOOLEAN, Connect(input) PROVE RepliesTyped'
  <2>1. PICK refused : Exchange(<<ProbePacket>> \o ClearLeds, {i + 1 : i \in refused})
    BY <1>5 DEF Connect
  <2> QED BY <1>1, <2>1, PacketLists, 9 >= 1
<1>6. CASE ConnectFails
  <2>1. CASE UNCHANGED <<lit, ordered, replies>>
    BY <1>3, <2>1
  <2>2. CASE Exchange(<<ProbePacket>>, {}) \/ ExchangeButLast(<<ProbePacket>>, {})
    BY <1>2, <2>2, PacketsSent
  <2>3. CASE \E n \in 0..8 :
                /\ \/ ExchangeButLast(<<ProbePacket>> \o SubSeq(ClearLeds, 1, n), {})
                   \/ Exchange(<<ProbePacket>> \o SubSeq(ClearLeds, 1, n), {})
                /\ lit' = LampsKept(SubSeq(ClearLeds, 1, n), {})
                /\ ordered' = OrdersKept(1..n, {})
    <3>1. PICK n \in 0..8 : \/ ExchangeButLast(<<ProbePacket>> \o SubSeq(ClearLeds, 1, n), {})
                            \/ Exchange(<<ProbePacket>> \o SubSeq(ClearLeds, 1, n), {})
      BY <2>3
    <3>2. /\ NoFrame(<<ProbePacket>> \o SubSeq(ClearLeds, 1, n))
          /\ Len(<<ProbePacket>> \o SubSeq(ClearLeds, 1, n)) = n + 1 /\ n + 1 >= 1
      BY PacketLists
    <3> QED BY <1>1, <3>1, <3>2
  <2>4. \/ UNCHANGED <<lit, ordered, replies>>
        \/ Exchange(<<ProbePacket>>, {}) \/ ExchangeButLast(<<ProbePacket>>, {})
        \/ \E n \in 0..8 :
              /\ \/ ExchangeButLast(<<ProbePacket>> \o SubSeq(ClearLeds, 1, n), {})
                 \/ Exchange(<<ProbePacket>> \o SubSeq(ClearLeds, 1, n), {})
              /\ lit' = LampsKept(SubSeq(ClearLeds, 1, n), {})
              /\ ordered' = OrdersKept(1..n, {})
    BY <1>6 DEF ConnectFails
  <2> QED BY <2>1, <2>2, <2>3, <2>4, Zenon
<1>7. ASSUME ResetPanel PROVE RepliesTyped'
  <2>1. PICK refused : Exchange(Append(ClearLeds, ClearImagePacket(1)), refused)
    BY <1>7, Zenon DEF ResetPanel, DEFAULT_PAGE_ID
  <2>2. Append(ClearLeds, ClearImagePacket(1)) \in Seq(FipControlPacket)
    BY PacketLists DEF NoFrame
  <2> HIDE DEF FipControlPacket
  <2> QED BY <2>1, <2>2, 0 \in 0..Len(Append(ClearLeds, ClearImagePacket(1))), LossTyped
<1>8. ASSUME ResetFails PROVE RepliesTyped'
  <2>1. PICK n \in 0..8, cleared \in BOOLEAN, unread \in 0..2 :
          /\ unread <= (IF n > 0 THEN 1 ELSE 0) + (IF cleared THEN 1 ELSE 0)
          /\ ExchangeBut(unread,
                         SubSeq(ClearLeds, 1, n)
                            \o IF cleared THEN <<ClearImagePacket(1)>> ELSE <<>>, {})
    BY <1>8, Zenon DEF ResetFails, DEFAULT_PAGE_ID
  <2> DEFINE packets == SubSeq(ClearLeds, 1, n)
                           \o IF cleared THEN <<ClearImagePacket(1)>> ELSE <<>>
  <2>2. NoFrame(packets) /\ Len(packets) = n + (IF cleared THEN 1 ELSE 0)
    <3>1. CASE cleared
      BY <3>1, PacketLists, Zenon
    <3>2. CASE ~cleared
      <4>1. NoFrame(packets) /\ Len(packets) = n
        BY <3>2, PacketLists, Zenon
      <4> QED BY <3>2, <4>1
    <3> QED BY <3>1, <3>2
  <2>3. ExchangeBut(unread, packets, {})
    BY <2>1
  <2> HIDE DEF packets
  <2>4. unread \in 0..Len(packets)
    BY <2>1, <2>2
  <2> QED BY <2>2, <2>3, <2>4, LossTyped DEF NoFrame
<1>9. CASE StopOrFail
  <2>1. CASE UNCHANGED <<hand, panel, ordered>>
    BY <1>3, <2>1 DEF panel
  <2>2. CASE replies' = <<>>
    BY <2>2, PanelAssumption DEF RepliesTyped
  <2> QED BY <1>7, <1>8, <1>9, <2>1, <2>2 DEF StopOrFail
<1>10. CASE ReadReport \/ ShortReport
  BY <1>3, <1>10 DEF ReadReport, ShortReport, panel
<1>11. CASE ResetDevice
  BY <1>7, <1>11 DEF ResetDevice
<1>12. CASE ShowNotice
  <2>1. PICK refused : Exchange(<<SetImagePacket(1)>>, refused)
    BY <1>12, Zenon DEF ShowNotice, DEFAULT_PAGE_ID
  <2> QED BY <1>2, <2>1, PacketsSent
<1>13. ASSUME NEW body \in Bodies, Ignore(body) \/ Undecodable(body) PROVE RepliesTyped'
  BY <1>3, <1>13 DEF Ignore, Undecodable, panel
<1>14. ASSUME NEW body \in Bodies, Apply(body) \/ Interrupted(body) PROVE RepliesTyped'
  <2> DEFINE o == HardwareOutputFromBody(body)
  <2>1. PICK refused : Exchange(<<PacketOf(o)>>, refused) \/ ExchangeButLast(<<PacketOf(o)>>, refused)
    BY <1>14, Zenon DEF Apply, Interrupted
  <2>2. ~Ignored(o)
    BY <1>14 DEF Apply, Interrupted
  <2>3. PacketOf(o) \in FipControlPacket
    BY <2>2, OutputKinds, PacketOfOutput
  <2> QED BY <1>2, <2>1, <2>3
<1>15. CASE UNCHANGED vars
  BY <1>3, <1>15 DEF vars, panel
<1> QED BY <1>4, <1>5, <1>6, <1>9, <1>10, <1>11, <1>12, <1>13, <1>14, <1>15 DEF Next

FrameInv == RepliesTyped /\ (serving => NoFrameReply) /\ FrameIsShown

LEMMA RepliesInit == Init => RepliesTyped
BY PanelAssumption DEF Init, RepliesTyped

LEMMA FrameInit == Init => FrameInv
BY RepliesInit DEF Init, FrameInv, FrameIsShown

\* Nine replies are few enough for the worker's first nine packets to take them all.
LEMMA FrameStep ==
    ASSUME MaxStale <= 9, FrameInv, [Next]_vars
    PROVE  FrameInv'
<1>0. RepliesTyped'
  BY RepliesStep DEF FrameInv
<1>1. RepliesTyped /\ (serving => NoFrameReply) /\ FrameIsShown /\ MaxStale \in Nat
  BY PanelAssumption DEF FrameInv
<1>2. ASSUME UNCHANGED <<panel, worker>> PROVE FrameInv'
  BY <1>0, <1>1, <1>2 DEF FrameInv, NoFrameReply, FrameIsShown, panel, worker
<1>3. ASSUME Leave PROVE FrameInv'
  BY <1>0, <1>3 DEF FrameInv, Leave, FrameIsShown
<1>4. ASSUME NEW c \in Touched, Touch(c) PROVE FrameInv'
  BY <1>2, <1>4 DEF Touch
<1>5. ASSUME NEW input \in BOOLEAN, Connect(input) PROVE FrameInv'
  <2>1. PICK refused : Exchange(<<ProbePacket>> \o ClearLeds, {i + 1 : i \in refused})
    BY <1>5 DEF Connect
  <2>2. Len(replies) <= Len(<<ProbePacket>> \o ClearLeds)
    BY <1>1, PacketLists DEF RepliesTyped
  <2>3. NoFrameReply'
    BY <1>1, <2>1, <2>2, PacketLists, ExchangeKeeps
  <2>4. effect' = "None"
    BY <1>5 DEF Connect, Serve
  <2> QED BY <1>0, <2>3, <2>4 DEF FrameInv, FrameIsShown
<1>6. CASE ConnectFails
  <2>1. UNCHANGED <<picture, worker>> /\ ~serving
    BY <1>6, Zenon DEF ConnectFails, Attempt
  <2> QED BY <1>0, <1>1, <2>1 DEF FrameInv, FrameIsShown, worker
<1>7. CASE StopOrFail \/ ShortReport
  BY <1>3, <1>7 DEF StopOrFail, ShortReport
<1>8. CASE ReadReport
  BY <1>0, <1>1, <1>8 DEF ReadReport, panel, FrameInv, FrameIsShown, NoFrameReply
<1>9. CASE ResetDevice
  <2>1. effect' = "Reset" /\ serving /\ serving' = serving
    BY <1>9 DEF ResetDevice, Observe
  <2>2. NoFrameReply'
    BY <1>1, <1>9, <2>1, ExchangeKeeps, PacketLists DEF ResetDevice, ResetPanel, DEFAULT_PAGE_ID
  <2> QED BY <1>0, <2>1, <2>2 DEF FrameInv, FrameIsShown
<1>10. CASE ShowNotice
  <2> DEFINE packet == SetImagePacket(1)
  <2>1. PICK refused \in BOOLEAN :
          /\ picture' = IF refused THEN picture ELSE PictureBy(ToBytes(packet), "notice")
          /\ Exchange(<<packet>>, Refused(refused))
          /\ IF ValidSetImageReply(Received(<<packet>>, Refused(refused)), 1)
             THEN UNCHANGED <<serving, effect>>
             ELSE Leave
    BY <1>10 DEF ShowNotice, DEFAULT_PAGE_ID
  <2>2. <<packet>> \in Seq(FipControlPacket) /\ Len(<<packet>>) = 1
    BY PacketsSent
  <2>4. CASE ValidSetImageReply(Received(<<packet>>, Refused(refused)), 1)
    <3>1. serving /\ NoFrameReply
      BY <1>1, <1>10 DEF ShowNotice
    <3>2. replies = <<>> /\ ~refused
      BY <1>1, <2>4, <3>1, FrameAccepted
    <3>3. picture' = "notice"
      BY <2>1, <3>2, ScreenCommands
    <3>4. Len(replies') = 0
      BY <1>1, <2>1, <2>2, <3>2, Exchanged DEF RepliesTyped
    <3> QED BY <1>0, <3>3, <3>4 DEF FrameInv, FrameIsShown, NoFrameReply
  <2>5. CASE ~ValidSetImageReply(Received(<<packet>>, Refused(refused)), 1)
    BY <1>3, <2>1, <2>5
  <2> QED BY <2>4, <2>5
<1>11. ASSUME NEW body \in Bodies, Ignore(body) PROVE FrameInv'
  BY <1>2, <1>11 DEF Ignore
<1>12. ASSUME NEW body \in Bodies, Undecodable(body) PROVE FrameInv'
  BY <1>3, <1>12 DEF Undecodable
<1>13. ASSUME NEW body \in Bodies, Apply(body) PROVE FrameInv'
  <2> DEFINE o == HardwareOutputFromBody(body)
  <2>1. PICK refused \in BOOLEAN :
          /\ CarryOut(o, refused)
          /\ Exchange(<<PacketOf(o)>>, Refused(refused))
          /\ CASE o.kind = "SetLed" -> Observe("None")
               [] o.kind = "ClearRaster" -> Observe("Clear")
               [] o.kind = "SetRasterFrame" ->
                     IF ValidSetImageReply(Received(<<PacketOf(o)>>, Refused(refused)), 1)
                     THEN Observe("Frame") ELSE Leave
    BY <1>13 DEF Apply, DEFAULT_PAGE_ID
  <2>2. serving /\ NoFrameReply
    BY <1>1, <1>13 DEF Apply
  <2>3. \/ /\ o.kind = "SetLed" /\ o.control_id \in DOMAIN LED_INDEX
           /\ o.value \in {"true", "false"}
        \/ o.kind = "SetRasterFrame"
        \/ o.kind = "ClearRaster"
    BY <1>13, OutputKinds DEF Apply
  <2> HIDE DEF o
  <2>4. <<PacketOf(o)>> \in Seq(FipControlPacket) /\ Len(<<PacketOf(o)>>) = 1
    BY <2>3, PacketOfOutput
  <2>6. ASSUME o.kind # "SetRasterFrame" PROVE NoFrameReply'
    <3>1. PacketOf(o).request # REQ_SET_IMAGE
      BY <2>3, <2>6, PacketOfOutput
    <3>2. NoFrame(<<PacketOf(o)>>)
      BY <2>4, <3>1 DEF NoFrame
    <3> QED BY <1>1, <2>1, <2>2, <3>2, ExchangeKeeps
  <2>7. CASE o.kind = "SetLed"
    <3>1. effect' = effect
      BY <2>1, <2>7 DEF Observe
    <3>2. picture' = picture
      <4>1. /\ PacketOf(o) = SetLedPacket(1, LedIndex(o.control_id), o.value = "true")
            /\ LedIndex(o.control_id) \in 1..8 /\ (o.value = "true") \in BOOLEAN
        BY <2>3, <2>7, PacketOfOutput, LampOfButton
      <4> DEFINE n == LedIndex(o.control_id)
                 on == o.value = "true"
      <4>2. /\ LitBy(ToBytes(SetLedPacket(1, n, on)), lit)
                 = (lit \ {Lamps[n]}) \cup (IF on THEN {Lamps[n]} ELSE {})
            /\ PictureBy(ToBytes(SetLedPacket(1, n, on)), "frame") = picture
        BY <4>1, LampCommand, Zenon
      <4>3. picture' = picture \/ picture' = PictureBy(ToBytes(PacketOf(o)), "frame")
        BY <2>1 DEF CarryOut
      <4> QED BY <4>1, <4>2, <4>3, Zenon
    <3> QED BY <1>0, <1>1, <2>6, <2>7, <3>1, <3>2 DEF FrameInv, FrameIsShown
  <2>8. CASE o.kind = "ClearRaster"
    <3>1. effect' = "Clear"
      BY <2>1, <2>8 DEF Observe
    <3> QED BY <1>0, <2>6, <2>8, <3>1 DEF FrameInv, FrameIsShown
  <2>9. CASE o.kind = "SetRasterFrame"
    <3>1. PacketOf(o) = SetImagePacket(1)
      BY <2>9, <2>3, PacketOfOutput
    <3>2. CASE ValidSetImageReply(Received(<<PacketOf(o)>>, Refused(refused)), 1)
      <4>1. replies = <<>> /\ ~refused
        BY <1>1, <2>2, <3>1, <3>2, FrameAccepted
      <4>2. picture' = "frame"
        BY <2>1, <3>1, <4>1, ScreenCommands DEF CarryOut
      <4>3. Len(replies') = 0
        BY <1>1, <2>1, <2>4, <4>1, Exchanged DEF RepliesTyped
      <4> QED BY <1>0, <4>2, <4>3 DEF FrameInv, FrameIsShown, NoFrameReply
    <3>3. CASE ~ValidSetImageReply(Received(<<PacketOf(o)>>, Refused(refused)), 1)
      <4>1. Leave
        BY <2>1, <2>9, <3>3
      <4> QED BY <1>3, <4>1
    <3> QED BY <3>2, <3>3
  <2> QED BY <2>3, <2>7, <2>8, <2>9
<1>14. ASSUME NEW body \in Bodies, Interrupted(body) PROVE FrameInv'
  BY <1>3, <1>14 DEF Interrupted
<1>15. CASE UNCHANGED vars
  BY <1>2, <1>15 DEF vars
<1> QED BY <1>4, <1>5, <1>6, <1>7, <1>8, <1>9, <1>10, <1>11, <1>12, <1>13, <1>14, <1>15 DEF Next

\* As long as the panel holds at most nine replies that nobody has read, a frame that
\* counts as displayed is displayed: the probe and the eight lamp commands a worker
\* begins with take every reply of an earlier worker, so that the reply to a frame
\* that is taken for the panel's consent is the reply to this frame (device_worker,
\* valid_set_image_reply).
THEOREM FrameShown ==
    ASSUME MaxStale <= 9
    PROVE  Spec => []FrameIsShown
<1>1. Init => FrameInv
  BY FrameInit
<1>2. FrameInv /\ [Next]_vars => FrameInv'
  BY FrameStep
<1>3. FrameInv => FrameIsShown
  BY DEF FrameInv
<1> QED BY <1>1, <1>2, <1>3, PTL DEF Spec

-----------------------------------------------------------------------------
(* Reports, events and messages. *)

\* The contact of each control.
Part ==
    [UP |-> "Up", DOWN |-> "Down", RIGHT_ANTICLOCKWISE |-> "RightBack",
     RIGHT_CLOCKWISE |-> "RightOn", S1 |-> "S1", S2 |-> "S2", S3 |-> "S3", S4 |-> "S4",
     S5 |-> "S5", S6 |-> "S6", LEFT_ANTICLOCKWISE |-> "LeftBack", LEFT_CLOCKWISE |-> "LeftOn"]

BitsOf(contacts) == {Contact[c] : c \in contacts}

\* Every contact has a bit of its own, and it is the bit of its control.
LEMMA ContactBits ==
    /\ \A c \in DOMAIN Contact : Contact[c] \in 0..15
    /\ \A c, d \in DOMAIN Contact : Contact[c] = Contact[d] => c = d
    /\ \A h \in DOMAIN HID_CONTROLS :
          Part[h] \in DOMAIN Contact /\ Contact[Part[h]] = HID_CONTROLS[h]
    /\ LampNames \subseteq DOMAIN Contact
<1>1. \A c \in DOMAIN Contact : Contact[c] \in 0..15
  BY SMT DEF Contact
<1>2. \A c, d \in DOMAIN Contact : Contact[c] = Contact[d] => c = d
  BY SMT DEF Contact
<1>3. \A h \in DOMAIN HID_CONTROLS :
        Part[h] \in DOMAIN Contact /\ Contact[Part[h]] = HID_CONTROLS[h]
  BY SMT DEF Contact, HID_CONTROLS, Part
<1>4. LampNames \subseteq DOMAIN Contact
  BY SMT DEF Contact, LampNames
<1> QED BY <1>1, <1>2, <1>3, <1>4

\* decode_hid_mask takes the two bytes in the order in which the panel sends them.
LEMMA MaskDecoded ==
    ASSUME NEW contacts \in SUBSET DOMAIN Contact
    PROVE  DecodeHidMask(PanelReport(contacts)) = BitsOf(contacts)
<1> DEFINE bits == BitsOf(contacts)
<1>1. bits \subseteq 0..15
  BY ContactBits DEF BitsOf
<1>2. PanelReport(contacts) = <<{bit \in 0..7 : bit + 8 \in bits}, {bit \in 0..7 : bit \in bits}>>
  BY DEF PanelReport, BitsOf
<1> HIDE DEF bits
<1>3. DecodeHidMask(PanelReport(contacts))
        = {bit + 8 : bit \in {bit \in 0..7 : bit + 8 \in bits}} \cup {bit \in 0..7 : bit \in bits}
  <2> DEFINE high == {bit \in 0..7 : bit + 8 \in bits}
             low == {bit \in 0..7 : bit \in bits}
  <2>1. PanelReport(contacts) = <<high, low>>
    BY <1>2
  <2> HIDE DEF high, low
  <2>2. <<high, low>>[1] = high /\ <<high, low>>[2] = low
    OBVIOUS
  <2>3. DecodeHidMask(<<high, low>>) = {bit + 8 : bit \in high} \cup low
    BY <2>2, Zenon DEF DecodeHidMask
  <2>4. DecodeHidMask(PanelReport(contacts)) = {bit + 8 : bit \in high} \cup low
    BY <2>1, <2>3, Zenon
  <2> QED BY <2>4 DEF high, low
<1>4. ASSUME NEW n \in bits, n > 7
      PROVE  n \in {bit + 8 : bit \in {bit \in 0..7 : bit + 8 \in bits}}
  <2>1. n - 8 \in 0..7 /\ (n - 8) + 8 = n
    BY <1>1, <1>4
  <2> QED BY <1>4, <2>1
<1>5. ASSUME NEW n \in bits, ~(n > 7) PROVE n \in {bit \in 0..7 : bit \in bits}
  BY <1>1, <1>5
<1>6. bits = {bit + 8 : bit \in {bit \in 0..7 : bit + 8 \in bits}} \cup {bit \in 0..7 : bit \in bits}
  BY <1>4, <1>5
<1> QED BY <1>3, <1>6 DEF bits

\* The bit of a control is set exactly if its contact is closed.
LEMMA BitOfContact ==
    ASSUME NEW contacts \in SUBSET DOMAIN Contact, NEW h \in DOMAIN HID_CONTROLS
    PROVE  HID_CONTROLS[h] \in BitsOf(contacts) <=> Part[h] \in contacts
BY ContactBits DEF BitsOf

\* The message of each event.
LEMMA Translated ==
    /\ DOMAIN ButtonOf \subseteq DOMAIN HID_CONTROLS
    /\ \A h \in DOMAIN ButtonOf, p \in BOOLEAN :
          TranslateHidEvent([control |-> h, pressed |-> p]) = {ButtonInput(ButtonOf[h], p)}
    /\ \A h \in DOMAIN HID_CONTROLS \ DOMAIN ButtonOf :
          TranslateHidEvent([control |-> h, pressed |-> FALSE]) = {}
    /\ TranslateHidEvent([control |-> "LEFT_CLOCKWISE", pressed |-> TRUE])
          = {EncoderInput("left_encoder", 1)}
    /\ TranslateHidEvent([control |-> "LEFT_ANTICLOCKWISE", pressed |-> TRUE])
          = {EncoderInput("left_encoder", -1)}
    /\ TranslateHidEvent([control |-> "RIGHT_CLOCKWISE", pressed |-> TRUE])
          = {EncoderInput("right_encoder", 1)}
    /\ TranslateHidEvent([control |-> "RIGHT_ANTICLOCKWISE", pressed |-> TRUE])
          = {EncoderInput("right_encoder", -1)}
    /\ DOMAIN HID_CONTROLS \ DOMAIN ButtonOf
          = {"LEFT_CLOCKWISE", "LEFT_ANTICLOCKWISE", "RIGHT_CLOCKWISE", "RIGHT_ANTICLOCKWISE"}
<1>1. /\ DOMAIN ButtonOf = {"UP", "DOWN", "S1", "S2", "S3", "S4", "S5", "S6"}
      /\ DOMAIN ButtonOf \subseteq DOMAIN HID_CONTROLS
      /\ DOMAIN HID_CONTROLS \ DOMAIN ButtonOf
          = {"LEFT_CLOCKWISE", "LEFT_ANTICLOCKWISE", "RIGHT_CLOCKWISE", "RIGHT_ANTICLOCKWISE"}
  BY SMT DEF ButtonOf, HID_CONTROLS
<1>2. ASSUME NEW h \in DOMAIN ButtonOf, NEW p \in BOOLEAN
      PROVE  TranslateHidEvent([control |-> h, pressed |-> p]) = {ButtonInput(ButtonOf[h], p)}
  BY <1>1 DEF TranslateHidEvent
<1>3. ASSUME NEW h \in DOMAIN HID_CONTROLS \ DOMAIN ButtonOf
      PROVE  TranslateHidEvent([control |-> h, pressed |-> FALSE]) = {}
  BY <1>1 DEF TranslateHidEvent
<1>4. /\ TranslateHidEvent([control |-> "LEFT_CLOCKWISE", pressed |-> TRUE])
            = {EncoderInput("left_encoder", 1)}
      /\ TranslateHidEvent([control |-> "LEFT_ANTICLOCKWISE", pressed |-> TRUE])
            = {EncoderInput("left_encoder", -1)}
      /\ TranslateHidEvent([control |-> "RIGHT_CLOCKWISE", pressed |-> TRUE])
            = {EncoderInput("right_encoder", 1)}
      /\ TranslateHidEvent([control |-> "RIGHT_ANTICLOCKWISE", pressed |-> TRUE])
            = {EncoderInput("right_encoder", -1)}
  BY <1>1 DEF TranslateHidEvent
<1> QED BY <1>1, <1>2, <1>3, <1>4

\* The events of a report are the contacts that closed and those that opened.
LEMMA EventsAre ==
    ASSUME NEW r \in SUBSET DOMAIN Contact, NEW w \in SUBSET DOMAIN Contact, NEW e
    PROVE  e \in ChangedEvents(BitsOf(r), BitsOf(w)) <=>
              \E h \in DOMAIN HID_CONTROLS :
                 \/ Part[h] \in w \ r /\ e = [control |-> h, pressed |-> TRUE]
                 \/ Part[h] \in r \ w /\ e = [control |-> h, pressed |-> FALSE]
<1>1. ASSUME NEW h \in DOMAIN HID_CONTROLS
      PROVE  /\ HID_CONTROLS[h] \in BitsOf(r) <=> Part[h] \in r
             /\ HID_CONTROLS[h] \in BitsOf(w) <=> Part[h] \in w
  BY BitOfContact
<1>2. e \in ChangedEvents(BitsOf(r), BitsOf(w)) <=>
         \E h \in DOMAIN HID_CONTROLS :
            /\ (HID_CONTROLS[h] \in BitsOf(r)) # (HID_CONTROLS[h] \in BitsOf(w))
            /\ e = [control |-> h, pressed |-> HID_CONTROLS[h] \in BitsOf(w)]
  BY Zenon DEF ChangedEvents
<1>3. ASSUME NEW h \in DOMAIN HID_CONTROLS
      PROVE  (/\ (HID_CONTROLS[h] \in BitsOf(r)) # (HID_CONTROLS[h] \in BitsOf(w))
              /\ e = [control |-> h, pressed |-> HID_CONTROLS[h] \in BitsOf(w)])
             <=> (\/ Part[h] \in w \ r /\ e = [control |-> h, pressed |-> TRUE]
                  \/ Part[h] \in r \ w /\ e = [control |-> h, pressed |-> FALSE])
  <2>1. CASE HID_CONTROLS[h] \in BitsOf(w)
    <3>1. (HID_CONTROLS[h] \in BitsOf(w)) = TRUE
      BY <2>1, Zenon
    <3>2. Part[h] \in w
      BY <1>1, <2>1
    <3> QED BY <1>1, <3>1, <3>2, Zenon
  <2>2. CASE HID_CONTROLS[h] \notin BitsOf(w)
    <3>1. (HID_CONTROLS[h] \in BitsOf(w)) = FALSE
      BY <2>2, SMT
    <3>2. Part[h] \notin w
      BY <1>1, <2>2
    <3>3. [control |-> h, pressed |-> HID_CONTROLS[h] \in BitsOf(w)]
            = [control |-> h, pressed |-> FALSE]
      <4>1. ASSUME NEW x \in BOOLEAN, x = FALSE
            PROVE  [control |-> h, pressed |-> x] = [control |-> h, pressed |-> FALSE]
        BY <4>1, Zenon
      <4>2. (HID_CONTROLS[h] \in BitsOf(w)) \in BOOLEAN
        OBVIOUS
      <4> QED BY <3>1, <4>1, <4>2, Zenon
    <3>4. ((HID_CONTROLS[h] \in BitsOf(r)) # (HID_CONTROLS[h] \in BitsOf(w)))
            <=> Part[h] \in r
      BY <1>1, <2>2
    <3> QED BY <3>2, <3>3, <3>4, Zenon
  <2> QED BY <2>1, <2>2
<1> QED BY <1>2, <1>3, Zenon

MessagesOf(r, w) ==
    UNION {TranslateHidEvent(e) : e \in ChangedEvents(BitsOf(r), BitsOf(w))}

\* The messages of a report: what closed is pressed or turned, what opened is let go.
LEMMA MessagesAre ==
    ASSUME NEW r \in SUBSET DOMAIN Contact, NEW w \in SUBSET DOMAIN Contact, NEW m
    PROVE  m \in MessagesOf(r, w) <=>
              \/ \E b \in DOMAIN BUTTON_CONTROLS :
                    \/ BUTTON_CONTROLS[b] \in w \ r /\ m = ButtonInput(b, TRUE)
                    \/ BUTTON_CONTROLS[b] \in r \ w /\ m = ButtonInput(b, FALSE)
              \/ \E k \in DOMAIN KNOB_CONTROLS :
                    \/ On[KNOB_CONTROLS[k]] \in w \ r /\ m = EncoderInput(k, 1)
                    \/ Back[KNOB_CONTROLS[k]] \in w \ r /\ m = EncoderInput(k, -1)
<1> DEFINE Of(h, p) == TranslateHidEvent([control |-> h, pressed |-> p])
<1>1. m \in MessagesOf(r, w) <=>
         \E h \in DOMAIN HID_CONTROLS :
            \/ Part[h] \in w \ r /\ m \in Of(h, TRUE)
            \/ Part[h] \in r \ w /\ m \in Of(h, FALSE)
  <2>1. m \in MessagesOf(r, w) <=>
           \E e \in ChangedEvents(BitsOf(r), BitsOf(w)) : m \in TranslateHidEvent(e)
    BY Zenon DEF MessagesOf
  <2>2. \A e : e \in ChangedEvents(BitsOf(r), BitsOf(w)) <=>
                \E h \in DOMAIN HID_CONTROLS :
                   \/ Part[h] \in w \ r /\ e = [control |-> h, pressed |-> TRUE]
                   \/ Part[h] \in r \ w /\ e = [control |-> h, pressed |-> FALSE]
    BY EventsAre
  <2> QED BY <2>1, <2>2, Zenon
<1>2. ASSUME NEW h \in DOMAIN ButtonOf
      PROVE  /\ m \in Of(h, TRUE) <=> m = ButtonInput(ButtonOf[h], TRUE)
             /\ m \in Of(h, FALSE) <=> m = ButtonInput(ButtonOf[h], FALSE)
  <2>1. TRUE \in BOOLEAN /\ FALSE \in BOOLEAN
    OBVIOUS
  <2>2. \A p \in BOOLEAN : Of(h, p) = {ButtonInput(ButtonOf[h], p)}
    BY Translated, Zenon
  <2>3. Of(h, TRUE) = {ButtonInput(ButtonOf[h], TRUE)}
    BY <2>1, <2>2, Zenon
  <2>4. Of(h, FALSE) = {ButtonInput(ButtonOf[h], FALSE)}
    BY <2>1, <2>2, Zenon
  <2> QED BY <2>3, <2>4, Zenon
<1>3. ASSUME NEW h \in DOMAIN HID_CONTROLS \ DOMAIN ButtonOf PROVE m \notin Of(h, FALSE)
  BY Translated, Zenon
<1>4. /\ m \in Of("LEFT_CLOCKWISE", TRUE) <=> m = EncoderInput("left_encoder", 1)
      /\ m \in Of("LEFT_ANTICLOCKWISE", TRUE) <=> m = EncoderInput("left_encoder", -1)
      /\ m \in Of("RIGHT_CLOCKWISE", TRUE) <=> m = EncoderInput("right_encoder", 1)
      /\ m \in Of("RIGHT_ANTICLOCKWISE", TRUE) <=> m = EncoderInput("right_encoder", -1)
  BY Translated, Zenon
<1> HIDE DEF Of
<1>5. /\ Part["LEFT_CLOCKWISE"] = "LeftOn" /\ Part["LEFT_ANTICLOCKWISE"] = "LeftBack"
      /\ Part["RIGHT_CLOCKWISE"] = "RightOn" /\ Part["RIGHT_ANTICLOCKWISE"] = "RightBack"
      /\ On[KNOB_CONTROLS["left_encoder"]] = "LeftOn"
      /\ Back[KNOB_CONTROLS["left_encoder"]] = "LeftBack"
      /\ On[KNOB_CONTROLS["right_encoder"]] = "RightOn"
      /\ Back[KNOB_CONTROLS["right_encoder"]] = "RightBack"
      /\ DOMAIN KNOB_CONTROLS = {"left_encoder", "right_encoder"}
  BY SMT DEF Part, On, Back, KNOB_CONTROLS
<1>6. /\ \A h \in DOMAIN ButtonOf :
            ButtonOf[h] \in DOMAIN BUTTON_CONTROLS /\ BUTTON_CONTROLS[ButtonOf[h]] = Part[h]
      /\ \A b \in DOMAIN BUTTON_CONTROLS : \E h \in DOMAIN ButtonOf : ButtonOf[h] = b
  <2>1. \A h \in DOMAIN ButtonOf :
            ButtonOf[h] \in DOMAIN BUTTON_CONTROLS /\ BUTTON_CONTROLS[ButtonOf[h]] = Part[h]
    BY SMT DEF ButtonOf, BUTTON_CONTROLS, Part
  <2>2. \A b \in DOMAIN BUTTON_CONTROLS : \E h \in DOMAIN ButtonOf : ButtonOf[h] = b
    BY SMT DEF ButtonOf, BUTTON_CONTROLS
  <2> QED BY <2>1, <2>2
<1>7. (\E h \in DOMAIN ButtonOf :
            \/ Part[h] \in w \ r /\ m \in Of(h, TRUE)
            \/ Part[h] \in r \ w /\ m \in Of(h, FALSE))
      <=> \E b \in DOMAIN BUTTON_CONTROLS :
            \/ BUTTON_CONTROLS[b] \in w \ r /\ m = ButtonInput(b, TRUE)
            \/ BUTTON_CONTROLS[b] \in r \ w /\ m = ButtonInput(b, FALSE)
  <2>1. \A h \in DOMAIN ButtonOf :
          /\ m \in Of(h, TRUE) <=> m = ButtonInput(ButtonOf[h], TRUE)
          /\ m \in Of(h, FALSE) <=> m = ButtonInput(ButtonOf[h], FALSE)
    BY <1>2, Zenon
  <2>2. ASSUME NEW h \in DOMAIN ButtonOf,
               \/ Part[h] \in w \ r /\ m \in Of(h, TRUE)
               \/ Part[h] \in r \ w /\ m \in Of(h, FALSE)
        PROVE  LET b == ButtonOf[h]
               IN  /\ b \in DOMAIN BUTTON_CONTROLS
                   /\ \/ BUTTON_CONTROLS[b] \in w \ r /\ m = ButtonInput(b, TRUE)
                      \/ BUTTON_CONTROLS[b] \in r \ w /\ m = ButtonInput(b, FALSE)
    BY <1>6, <2>1, <2>2, Zenon
  <2>3. ASSUME NEW b \in DOMAIN BUTTON_CONTROLS,
               \/ BUTTON_CONTROLS[b] \in w \ r /\ m = ButtonInput(b, TRUE)
               \/ BUTTON_CONTROLS[b] \in r \ w /\ m = ButtonInput(b, FALSE)
        PROVE  \E h \in DOMAIN ButtonOf :
                  \/ Part[h] \in w \ r /\ m \in Of(h, TRUE)
                  \/ Part[h] \in r \ w /\ m \in Of(h, FALSE)
    <3>1. PICK h \in DOMAIN ButtonOf : ButtonOf[h] = b
      BY <1>6
    <3>2. BUTTON_CONTROLS[b] = Part[h]
      BY <1>6, <3>1
    <3> QED BY <2>1, <2>3, <3>1, <3>2, Zenon
  <2> QED BY <2>2, <2>3, Zenon
<1>8. (\E h \in DOMAIN HID_CONTROLS \ DOMAIN ButtonOf :
            \/ Part[h] \in w \ r /\ m \in Of(h, TRUE)
            \/ Part[h] \in r \ w /\ m \in Of(h, FALSE))
      <=> \E k \in DOMAIN KNOB_CONTROLS :
            \/ On[KNOB_CONTROLS[k]] \in w \ r /\ m = EncoderInput(k, 1)
            \/ Back[KNOB_CONTROLS[k]] \in w \ r /\ m = EncoderInput(k, -1)
  <2>1. (\E h \in DOMAIN HID_CONTROLS \ DOMAIN ButtonOf :
            \/ Part[h] \in w \ r /\ m \in Of(h, TRUE)
            \/ Part[h] \in r \ w /\ m \in Of(h, FALSE))
        <=> \/ "LeftOn" \in w \ r /\ m = EncoderInput("left_encoder", 1)
            \/ "LeftBack" \in w \ r /\ m = EncoderInput("left_encoder", -1)
            \/ "RightOn" \in w \ r /\ m = EncoderInput("right_encoder", 1)
            \/ "RightBack" \in w \ r /\ m = EncoderInput("right_encoder", -1)
    BY <1>3, <1>4, <1>5, Translated, Zenon
  <2> QED BY <1>5, <2>1, Zenon
<1>9. DOMAIN ButtonOf \subseteq DOMAIN HID_CONTROLS
  BY Translated
<1> QED BY <1>1, <1>7, <1>8, <1>9, Zenon

-----------------------------------------------------------------------------
(* What a controller is told, step by step. *)

AllInputs ==
    {ButtonInput(b, TRUE) : b \in DOMAIN BUTTON_CONTROLS}
        \cup {ButtonInput(b, FALSE) : b \in DOMAIN BUTTON_CONTROLS}
        \cup {EncoderInput(k, 1) : k \in DOMAIN KNOB_CONTROLS}
        \cup {EncoderInput(k, -1) : k \in DOMAIN KNOB_CONTROLS}

\* Messages of two controls, or of two moves of one, are different messages.
LEMMA InputsDiffer ==
    /\ \A b, c \in DOMAIN BUTTON_CONTROLS :
          /\ ButtonInput(b, TRUE) = ButtonInput(c, TRUE) => b = c
          /\ ButtonInput(b, FALSE) = ButtonInput(c, FALSE) => b = c
          /\ ButtonInput(b, TRUE) # ButtonInput(c, FALSE)
    /\ \A b \in DOMAIN BUTTON_CONTROLS, k \in DOMAIN KNOB_CONTROLS :
          /\ ButtonInput(b, TRUE) # EncoderInput(k, 1)
          /\ ButtonInput(b, TRUE) # EncoderInput(k, -1)
          /\ ButtonInput(b, FALSE) # EncoderInput(k, 1)
          /\ ButtonInput(b, FALSE) # EncoderInput(k, -1)
    /\ \A j, k \in DOMAIN KNOB_CONTROLS :
          /\ EncoderInput(j, 1) = EncoderInput(k, 1) => j = k
          /\ EncoderInput(j, -1) = EncoderInput(k, -1) => j = k
          /\ EncoderInput(j, 1) # EncoderInput(k, -1)
<1>1. ASSUME NEW b, NEW c
      PROVE  /\ ButtonInput(b, TRUE) = ButtonInput(c, TRUE) => b = c
             /\ ButtonInput(b, FALSE) = ButtonInput(c, FALSE) => b = c
             /\ ButtonInput(b, TRUE) # ButtonInput(c, FALSE)
  BY SMT DEF ButtonInput, ControlInput
<1>2. ASSUME NEW b, NEW k
      PROVE  /\ ButtonInput(b, TRUE) # EncoderInput(k, 1)
             /\ ButtonInput(b, TRUE) # EncoderInput(k, -1)
             /\ ButtonInput(b, FALSE) # EncoderInput(k, 1)
             /\ ButtonInput(b, FALSE) # EncoderInput(k, -1)
  BY SMT DEF ButtonInput, EncoderInput, ControlInput
<1>3. ASSUME NEW j, NEW k
      PROVE  /\ EncoderInput(j, 1) = EncoderInput(k, 1) => j = k
             /\ EncoderInput(j, -1) = EncoderInput(k, -1) => j = k
             /\ EncoderInput(j, 1) # EncoderInput(k, -1)
  BY SMT DEF EncoderInput, ControlInput
<1> QED BY <1>1, <1>2, <1>3, Zenon

\* Which messages of one control are among those of a report.
LEMMA MessageOfControl ==
    ASSUME NEW r \in SUBSET DOMAIN Contact, NEW w \in SUBSET DOMAIN Contact
    PROVE  /\ MessagesOf(r, w) \subseteq AllInputs
           /\ \A b \in DOMAIN BUTTON_CONTROLS :
                 /\ ButtonInput(b, TRUE) \in MessagesOf(r, w) <=> BUTTON_CONTROLS[b] \in w \ r
                 /\ ButtonInput(b, FALSE) \in MessagesOf(r, w) <=> BUTTON_CONTROLS[b] \in r \ w
           /\ \A k \in DOMAIN KNOB_CONTROLS :
                 /\ EncoderInput(k, 1) \in MessagesOf(r, w) <=> On[KNOB_CONTROLS[k]] \in w \ r
                 /\ EncoderInput(k, -1) \in MessagesOf(r, w) <=> Back[KNOB_CONTROLS[k]] \in w \ r
<1> DEFINE M == MessagesOf(r, w)
<1>1. \A m : m \in M <=>
              \/ \E b \in DOMAIN BUTTON_CONTROLS :
                    \/ BUTTON_CONTROLS[b] \in w \ r /\ m = ButtonInput(b, TRUE)
                    \/ BUTTON_CONTROLS[b] \in r \ w /\ m = ButtonInput(b, FALSE)
              \/ \E k \in DOMAIN KNOB_CONTROLS :
                    \/ On[KNOB_CONTROLS[k]] \in w \ r /\ m = EncoderInput(k, 1)
                    \/ Back[KNOB_CONTROLS[k]] \in w \ r /\ m = EncoderInput(k, -1)
  BY MessagesAre
<1> HIDE DEF M
<1>2. ASSUME NEW m \in M PROVE m \in AllInputs
  BY <1>1, <1>2, Zenon DEF AllInputs
<1>3. ASSUME NEW b \in DOMAIN BUTTON_CONTROLS
      PROVE  /\ ButtonInput(b, TRUE) \in M <=> BUTTON_CONTROLS[b] \in w \ r
             /\ ButtonInput(b, FALSE) \in M <=> BUTTON_CONTROLS[b] \in r \ w
  <2>1. ASSUME BUTTON_CONTROLS[b] \in w \ r PROVE ButtonInput(b, TRUE) \in M
    BY <1>1, <2>1, Zenon
  <2>2. ASSUME ButtonInput(b, TRUE) \in M PROVE BUTTON_CONTROLS[b] \in w \ r
    <3>1. \/ \E c \in DOMAIN BUTTON_CONTROLS :
                 \/ BUTTON_CONTROLS[c] \in w \ r /\ ButtonInput(b, TRUE) = ButtonInput(c, TRUE)
                 \/ BUTTON_CONTROLS[c] \in r \ w /\ ButtonInput(b, TRUE) = ButtonInput(c, FALSE)
          \/ \E j \in DOMAIN KNOB_CONTROLS :
                 \/ On[KNOB_CONTROLS[j]] \in w \ r /\ ButtonInput(b, TRUE) = EncoderInput(j, 1)
                 \/ Back[KNOB_CONTROLS[j]] \in w \ r /\ ButtonInput(b, TRUE) = EncoderInput(j, -1)
      BY <1>1, <2>2, Zenon
    <3> QED BY <3>1, InputsDiffer, Zenon
  <2>3. ASSUME BUTTON_CONTROLS[b] \in r \ w PROVE ButtonInput(b, FALSE) \in M
    BY <1>1, <2>3, Zenon
  <2>4. ASSUME ButtonInput(b, FALSE) \in M PROVE BUTTON_CONTROLS[b] \in r \ w
    <3>1. \/ \E c \in DOMAIN BUTTON_CONTROLS :
                 \/ BUTTON_CONTROLS[c] \in w \ r /\ ButtonInput(b, FALSE) = ButtonInput(c, TRUE)
                 \/ BUTTON_CONTROLS[c] \in r \ w /\ ButtonInput(b, FALSE) = ButtonInput(c, FALSE)
          \/ \E j \in DOMAIN KNOB_CONTROLS :
                 \/ On[KNOB_CONTROLS[j]] \in w \ r /\ ButtonInput(b, FALSE) = EncoderInput(j, 1)
                 \/ Back[KNOB_CONTROLS[j]] \in w \ r /\ ButtonInput(b, FALSE) = EncoderInput(j, -1)
      BY <1>1, <2>4, Zenon
    <3> QED BY <3>1, InputsDiffer, Zenon
  <2> QED BY <2>1, <2>2, <2>3, <2>4, Zenon
<1>4. ASSUME NEW k \in DOMAIN KNOB_CONTROLS
      PROVE  /\ EncoderInput(k, 1) \in M <=> On[KNOB_CONTROLS[k]] \in w \ r
             /\ EncoderInput(k, -1) \in M <=> Back[KNOB_CONTROLS[k]] \in w \ r
  <2>1. ASSUME On[KNOB_CONTROLS[k]] \in w \ r PROVE EncoderInput(k, 1) \in M
    BY <1>1, <2>1, Zenon
  <2>2. ASSUME EncoderInput(k, 1) \in M PROVE On[KNOB_CONTROLS[k]] \in w \ r
    <3>1. \/ \E c \in DOMAIN BUTTON_CONTROLS :
                 \/ BUTTON_CONTROLS[c] \in w \ r /\ EncoderInput(k, 1) = ButtonInput(c, TRUE)
                 \/ BUTTON_CONTROLS[c] \in r \ w /\ EncoderInput(k, 1) = ButtonInput(c, FALSE)
          \/ \E j \in DOMAIN KNOB_CONTROLS :
                 \/ On[KNOB_CONTROLS[j]] \in w \ r /\ EncoderInput(k, 1) = EncoderInput(j, 1)
                 \/ Back[KNOB_CONTROLS[j]] \in w \ r /\ EncoderInput(k, 1) = EncoderInput(j, -1)
      BY <1>1, <2>2, Zenon
    <3> QED BY <3>1, InputsDiffer, Zenon
  <2>3. ASSUME Back[KNOB_CONTROLS[k]] \in w \ r PROVE EncoderInput(k, -1) \in M
    BY <1>1, <2>3, Zenon
  <2>4. ASSUME EncoderInput(k, -1) \in M PROVE Back[KNOB_CONTROLS[k]] \in w \ r
    <3>1. \/ \E c \in DOMAIN BUTTON_CONTROLS :
                 \/ BUTTON_CONTROLS[c] \in w \ r /\ EncoderInput(k, -1) = ButtonInput(c, TRUE)
                 \/ BUTTON_CONTROLS[c] \in r \ w /\ EncoderInput(k, -1) = ButtonInput(c, FALSE)
          \/ \E j \in DOMAIN KNOB_CONTROLS :
                 \/ On[KNOB_CONTROLS[j]] \in w \ r /\ EncoderInput(k, -1) = EncoderInput(j, 1)
                 \/ Back[KNOB_CONTROLS[j]] \in w \ r /\ EncoderInput(k, -1) = EncoderInput(j, -1)
      BY <1>1, <2>4, Zenon
    <3> QED BY <3>1, InputsDiffer, Zenon
  <2> QED BY <2>1, <2>2, <2>3, <2>4, Zenon
<1> QED BY <1>2, <1>3, <1>4, Zenon DEF M

HandTyped ==
    /\ closed \subseteq DOMAIN Contact /\ read \subseteq DOMAIN Contact
    /\ waiting \subseteq DOMAIN Contact
    /\ report = NoReport \/ report = PanelReport(waiting)

DeviceKept ==
    /\ serving \in BOOLEAN /\ has_hid \in BOOLEAN
    /\ device = IF serving THEN ControlDescriptors(has_hid) ELSE NoDevice
    /\ inputs \subseteq AllInputs
    /\ inputs # {} => serving /\ has_hid

StepKept ==
    /\ previous_mask = BitsOf(read)
    /\ down = {b \in DOMAIN BUTTON_CONTROLS : BUTTON_CONTROLS[b] \in read}
    /\ angle \in [DOMAIN KNOB_CONTROLS -> Int] /\ turned \in [KnobNames -> Int]
    /\ \A k \in DOMAIN KNOB_CONTROLS : angle[k] = turned[KNOB_CONTROLS[k]]

ViewInv == HandTyped /\ DeviceKept /\ StepKept

\* A worker that begins or ends starts over.
LEMMA StartsOver ==
    ASSUME previous_mask' = {}, read' = {}, down' = {}, angle' = Unturned, turned' = Unmoved
    PROVE  StepKept'
<1>1. /\ Unturned \in [DOMAIN KNOB_CONTROLS -> Int] /\ Unmoved \in [KnobNames -> Int]
      /\ \A k \in DOMAIN KNOB_CONTROLS :
            KNOB_CONTROLS[k] \in KnobNames /\ Unturned[k] = 0 /\ Unmoved[KNOB_CONTROLS[k]] = 0
  BY DEF Unturned, Unmoved, KnobNames, KNOB_CONTROLS
<1>2. BitsOf({}) = {}
  BY DEF BitsOf
<1>3. (\A k \in DOMAIN KNOB_CONTROLS : angle[k] = turned[KNOB_CONTROLS[k]])'
  BY <1>1
<1>4. down' = {b \in DOMAIN BUTTON_CONTROLS : BUTTON_CONTROLS[b] \in read'}
  OBVIOUS
<1>5. previous_mask' = BitsOf(read')
  BY <1>2
<1> QED BY <1>1, <1>3, <1>4, <1>5 DEF StepKept

\* Reading a report keeps step: what is down and how far each knob went follow it.
LEMMA ReadKeepsStep ==
    ASSUME HandTyped, DeviceKept, StepKept, ReadReport
    PROVE  HandTyped' /\ DeviceKept' /\ StepKept'
<1> DEFINE M == MessagesOf(read, waiting)
<1>1. /\ read \in SUBSET DOMAIN Contact /\ waiting \in SUBSET DOMAIN Contact
      /\ report = PanelReport(waiting)
  BY DEF HandTyped, ReadReport
<1>2. DecodeHidMask(report) = BitsOf(waiting)
  BY <1>1, MaskDecoded
<1>3. /\ Tell(M) /\ previous_mask' = BitsOf(waiting)
      /\ serving /\ has_hid /\ UNCHANGED <<serving, has_hid, device>>
      /\ read' = waiting /\ report' = NoReport /\ UNCHANGED <<closed, waiting>>
      /\ turned' = [n \in KnobNames |-> Turn(n)]
  BY <1>2, Zenon DEF ReadReport, StepKept, MessagesOf
<1>4. /\ M \subseteq AllInputs
      /\ \A b \in DOMAIN BUTTON_CONTROLS :
            /\ ButtonInput(b, TRUE) \in M <=> BUTTON_CONTROLS[b] \in waiting \ read
            /\ ButtonInput(b, FALSE) \in M <=> BUTTON_CONTROLS[b] \in read \ waiting
      /\ \A k \in DOMAIN KNOB_CONTROLS :
            /\ EncoderInput(k, 1) \in M <=> On[KNOB_CONTROLS[k]] \in waiting \ read
            /\ EncoderInput(k, -1) \in M <=> Back[KNOB_CONTROLS[k]] \in waiting \ read
  BY <1>1, MessageOfControl
<1> HIDE DEF M
<1>5. HandTyped'
  BY <1>3 DEF HandTyped
<1>6. DeviceKept'
  <2>1. inputs' = M
    BY <1>3 DEF Tell
  <2> QED BY <1>3, <1>4, <2>1 DEF DeviceKept
<1>7. down' = {b \in DOMAIN BUTTON_CONTROLS : BUTTON_CONTROLS[b] \in read'}
  <2>1. down' = {b \in DOMAIN BUTTON_CONTROLS :
                    \/ ButtonInput(b, TRUE) \in M
                    \/ b \in down /\ ButtonInput(b, FALSE) \notin M}
    BY <1>3 DEF Tell
  <2>2. ASSUME NEW b \in DOMAIN BUTTON_CONTROLS
        PROVE  (\/ ButtonInput(b, TRUE) \in M
                \/ b \in down /\ ButtonInput(b, FALSE) \notin M)
               <=> BUTTON_CONTROLS[b] \in waiting
    <3>1. b \in down <=> BUTTON_CONTROLS[b] \in read
      BY DEF StepKept
    <3>2. /\ ButtonInput(b, TRUE) \in M <=> BUTTON_CONTROLS[b] \in waiting \ read
          /\ ButtonInput(b, FALSE) \in M <=> BUTTON_CONTROLS[b] \in read \ waiting
      BY <1>4, Zenon
    <3> QED BY <3>1, <3>2, Zenon
  <2> QED BY <1>3, <2>1, <2>2, Zenon
<1>8. ASSUME NEW k \in DOMAIN KNOB_CONTROLS
      PROVE  angle'[k] \in Int /\ angle'[k] = turned'[KNOB_CONTROLS[k]]
  <2> DEFINE n == KNOB_CONTROLS[k]
             on == IF On[n] \in waiting \ read THEN 1 ELSE 0
             back == IF Back[n] \in waiting \ read THEN 1 ELSE 0
  <2>1. n \in KnobNames
    BY SMT DEF KNOB_CONTROLS, KnobNames
  <2>2. angle'[k] = angle[k] + (IF EncoderInput(k, 1) \in M THEN 1 ELSE 0)
                             - (IF EncoderInput(k, -1) \in M THEN 1 ELSE 0)
    BY <1>3 DEF Tell
  <2>3. /\ on = IF EncoderInput(k, 1) \in M THEN 1 ELSE 0
        /\ back = IF EncoderInput(k, -1) \in M THEN 1 ELSE 0
    BY <1>4
  <2>4. turned'[n] = turned[n] + on - back
    BY <1>3, <2>1 DEF Turn
  <2>5. angle[k] \in Int /\ angle[k] = turned[n]
    BY DEF StepKept
  <2>6. on \in Int /\ back \in Int
    OBVIOUS
  <2>7. angle'[k] = angle[k] + on - back
    BY <2>2, <2>3, Zenon
  <2> HIDE DEF n, on, back
  <2>8. angle'[k] \in Int /\ angle'[k] = turned'[n]
    BY <2>4, <2>5, <2>6, <2>7
  <2> QED BY <2>8 DEF n
<1>9. angle' \in [DOMAIN KNOB_CONTROLS -> Int]
  <2>1. angle' = [k \in DOMAIN KNOB_CONTROLS |-> angle'[k]]
    BY <1>3 DEF Tell
  <2> QED BY <1>8, <2>1
<1>10. turned' \in [KnobNames -> Int]
  <2>1. ASSUME NEW n \in KnobNames PROVE Turn(n) \in Int
    <3>1. turned[n] \in Int
      BY DEF StepKept
    <3> QED BY <3>1 DEF Turn
  <2> QED BY <1>3, <2>1
<1>11. StepKept'
  BY <1>3, <1>7, <1>8, <1>9, <1>10 DEF StepKept
<1> QED BY <1>5, <1>6, <1>11

LEMMA ViewInit == Init => ViewInv
<1> SUFFICES ASSUME Init PROVE ViewInv
  OBVIOUS
<1>1. HandTyped
  BY DEF Init, HandTyped
<1>2. DeviceKept
  BY DEF Init, DeviceKept
<1>3. StepKept
  <2>1. /\ Unturned \in [DOMAIN KNOB_CONTROLS -> Int] /\ Unmoved \in [KnobNames -> Int]
        /\ \A k \in DOMAIN KNOB_CONTROLS :
              KNOB_CONTROLS[k] \in KnobNames /\ Unturned[k] = 0 /\ Unmoved[KNOB_CONTROLS[k]] = 0
    BY DEF Unturned, Unmoved, KnobNames, KNOB_CONTROLS
  <2>2. BitsOf({}) = {}
    BY DEF BitsOf
  <2> QED BY <2>1, <2>2 DEF Init, StepKept
<1> QED BY <1>1, <1>2, <1>3 DEF ViewInv

\* No step breaks what a controller is told.
LEMMA ViewStep ==
    ASSUME ViewInv, [Next]_vars
    PROVE  ViewInv'
<1>1. HandTyped /\ DeviceKept /\ StepKept
  BY DEF ViewInv
<1>2. ASSUME UNCHANGED <<serving, has_hid, device, inputs>> PROVE DeviceKept'
  BY <1>1, <1>2 DEF DeviceKept
<1>3. ASSUME UNCHANGED <<previous_mask, read, down, angle, turned>> PROVE StepKept'
  BY <1>1, <1>3 DEF StepKept, BitsOf
<1>4. ASSUME UNCHANGED hand, UNCHANGED read PROVE HandTyped'
  BY <1>1, <1>4 DEF HandTyped, hand, PanelReport
<1>5. ASSUME UNCHANGED <<closed, waiting>>, report' = NoReport \/ UNCHANGED report,
             read' \in {{}, read}
      PROVE  HandTyped'
  BY <1>1, <1>5 DEF HandTyped, PanelReport
<1>6. ASSUME Leave PROVE DeviceKept' /\ StepKept' /\ read' = {}
  <2>1. StepKept'
    BY <1>6, StartsOver DEF Leave
  <2> QED BY <1>6, <2>1 DEF Leave, DeviceKept
<1>7. ASSUME NEW c \in Touched, Touch(c) PROVE ViewInv'
  <2>1. closed' \subseteq DOMAIN Contact /\ waiting' = closed' /\ report' = PanelReport(closed')
    BY <1>1, <1>7, PanelAssumption DEF Touch, HandTyped
  <2>2. HandTyped'
    BY <1>1, <1>7, <2>1 DEF HandTyped, Touch, view, PanelReport
  <2> QED BY <1>2, <1>3, <1>7, <2>2 DEF Touch, worker, view, ViewInv
<1>8. ASSUME NEW input \in BOOLEAN, Connect(input) PROVE ViewInv'
  <2>1. Serve(input) /\ UNCHANGED hand
    BY <1>8 DEF Connect
  <2>2. StepKept'
    BY <2>1, StartsOver DEF Serve
  <2>3. DeviceKept'
    BY <2>1 DEF Serve, DeviceKept
  <2>4. HandTyped'
    BY <1>5, <2>1 DEF Serve, hand
  <2> QED BY <2>2, <2>3, <2>4 DEF ViewInv
<1>9. CASE ConnectFails
  <2>1. UNCHANGED <<hand, picture, worker, view>>
    BY <1>9, Zenon DEF ConnectFails
  <2> QED BY <1>2, <1>3, <1>4, <2>1 DEF worker, view, ViewInv
<1>10. CASE StopOrFail
  <2>1. Leave /\ (UNCHANGED hand \/ (report' = NoReport /\ waiting' = {} /\ UNCHANGED closed))
    BY <1>10, Zenon DEF StopOrFail
  <2>2. HandTyped'
    BY <1>1, <1>5, <1>6, <2>1 DEF hand, HandTyped
  <2> QED BY <1>6, <2>1, <2>2 DEF ViewInv
<1>11. CASE ReadReport
  BY <1>1, <1>11, ReadKeepsStep DEF ViewInv
<1>12. CASE ShortReport
  <2>1. Leave /\ report' = NoReport /\ UNCHANGED <<closed, waiting>>
    BY <1>12 DEF ShortReport
  <2> QED BY <1>5, <1>6, <2>1 DEF ViewInv
<1>13. ASSUME NEW effected, Observe(effected), UNCHANGED hand PROVE ViewInv'
  BY <1>2, <1>3, <1>4, <1>13 DEF Observe, view, ViewInv
<1>14. ASSUME Leave, UNCHANGED hand PROVE ViewInv'
  BY <1>5, <1>6, <1>14 DEF ViewInv, hand
<1>15. CASE ResetDevice
  BY <1>13, <1>15 DEF ResetDevice
<1>16. CASE ShowNotice
  <2>1. /\ UNCHANGED hand
        /\ Leave \/ UNCHANGED <<serving, has_hid, previous_mask, armed, effect, view>>
    BY <1>16, Zenon DEF ShowNotice
  <2>2. CASE Leave
    BY <1>14, <2>1, <2>2
  <2>3. CASE UNCHANGED <<serving, has_hid, previous_mask, armed, effect, view>>
    BY <1>2, <1>3, <1>4, <2>1, <2>3 DEF view, ViewInv
  <2> QED BY <2>1, <2>2, <2>3
<1>17. ASSUME NEW body \in Bodies, Ignore(body) PROVE ViewInv'
  BY <1>2, <1>3, <1>4, <1>17 DEF Ignore, worker, view, ViewInv
<1>18. ASSUME NEW body \in Bodies, Undecodable(body) PROVE ViewInv'
  BY <1>14, <1>18 DEF Undecodable
<1>19. ASSUME NEW body \in Bodies, Apply(body) PROVE ViewInv'
  <2>1. Observe("None") \/ Observe("Clear") \/ Observe("Frame") \/ Leave
    BY <1>19, OutputKinds DEF Apply
  <2>2. UNCHANGED hand
    BY <1>19 DEF Apply
  <2> QED BY <1>13, <1>14, <2>1, <2>2, Zenon
<1>20. ASSUME NEW body \in Bodies, Interrupted(body) PROVE ViewInv'
  BY <1>14, <1>20 DEF Interrupted
<1>21. CASE UNCHANGED vars
  BY <1>2, <1>3, <1>4, <1>21 DEF vars, worker, view, ViewInv
<1> QED BY <1>7, <1>8, <1>9, <1>10, <1>11, <1>12, <1>15, <1>16, <1>17, <1>18, <1>19, <1>20,
           <1>21 DEF Next

\* A controller never loses step with the panel: decode_hid_mask, changed_events and
\* translate_hid_event make messages of the reports that add up to where the contacts
\* stand, whatever reports were overwritten and however far a knob was turned.
THEOREM InStep == Spec => []ControllerInStep
<1>1. Init => ViewInv
  BY ViewInit
<1>2. ViewInv /\ [Next]_vars => ViewInv'
  BY ViewStep
<1>3. ViewInv => ControllerInStep
  <2> SUFFICES ASSUME ViewInv PROVE ControllerInStep
    OBVIOUS
  <2>1. /\ \A b \in DOMAIN BUTTON_CONTROLS : BUTTON_CONTROLS[b] \in LampNames
        /\ \A n \in LampNames : \E b \in DOMAIN BUTTON_CONTROLS : BUTTON_CONTROLS[b] = n
    <3>1. \A n \in LampNames : \E b \in DOMAIN BUTTON_CONTROLS : BUTTON_CONTROLS[b] = n
      BY SMT DEF BUTTON_CONTROLS, LampNames
    <3> QED BY <3>1, LampOfButton
  <2>2. down = {b \in DOMAIN BUTTON_CONTROLS : BUTTON_CONTROLS[b] \in read}
    BY DEF ViewInv, StepKept
  <2>3. {BUTTON_CONTROLS[b] : b \in down} = read \cap LampNames
    BY <2>1, <2>2
  <2>4. \A k \in DOMAIN KNOB_CONTROLS : angle[k] = turned[KNOB_CONTROLS[k]]
    BY DEF ViewInv, StepKept
  <2> QED BY <2>3, <2>4 DEF ControllerInStep
<1> QED BY <1>1, <1>2, <1>3, PTL DEF Spec

-----------------------------------------------------------------------------
(* The descriptor. *)

\* The messages are inputs of the descriptor they are sent under.
LEMMA InputOffered ==
    ASSUME DeviceKept
    PROVE  InputIsOffered
<1> SUFFICES ASSUME NEW m \in inputs
             PROVE  \E c \in device : \E cap \in c.input_capabilities :
                       /\ c.control_id = m.control_id
                       /\ cap.capability_id = m.capability_id
                       /\ m.event_type \in cap.event_types
  BY DEF InputIsOffered
<1>1. device = ControlDescriptors(TRUE) /\ m \in AllInputs
  <2>1. serving /\ has_hid /\ m \in AllInputs
    BY DEF DeviceKept
  <2>2. has_hid = TRUE
    BY <2>1 DEF DeviceKept
  <2>3. device = ControlDescriptors(has_hid)
    BY <2>1 DEF DeviceKept
  <2> QED BY <2>1, <2>2, <2>3, Zenon
<1>2. /\ device = {ScreenControl} \cup ButtonControls({Button}) \cup KnobControls
  BY <1>1 DEF ControlDescriptors
<1>3. ASSUME NEW b \in DOMAIN BUTTON_CONTROLS
      PROVE  /\ ControlDescriptor(b, BUTTON_CONTROLS[b], {Button}, {Led}) \in device
             /\ ControlDescriptor(b, BUTTON_CONTROLS[b], {Button}, {Led}).control_id = b
             /\ Button \in ControlDescriptor(b, BUTTON_CONTROLS[b], {Button}, {Led}).input_capabilities
  BY <1>2 DEF ButtonControls, ControlDescriptor
<1>4. ASSUME NEW k \in DOMAIN KNOB_CONTROLS
      PROVE  /\ ControlDescriptor(k, KNOB_CONTROLS[k], {Encoder}, {}) \in device
             /\ ControlDescriptor(k, KNOB_CONTROLS[k], {Encoder}, {}).control_id = k
             /\ Encoder \in ControlDescriptor(k, KNOB_CONTROLS[k], {Encoder}, {}).input_capabilities
  BY <1>2 DEF KnobControls, ControlDescriptor
<1>5. ASSUME NEW b,
             m = ButtonInput(b, TRUE) \/ m = ButtonInput(b, FALSE)
      PROVE  /\ m.control_id = b /\ m.capability_id = Button.capability_id
             /\ m.event_type \in Button.event_types
  BY <1>5 DEF ButtonInput, ControlInput, Button, Capability
<1>6. ASSUME NEW k, m = EncoderInput(k, 1) \/ m = EncoderInput(k, -1)
      PROVE  /\ m.control_id = k /\ m.capability_id = Encoder.capability_id
             /\ m.event_type \in Encoder.event_types
  BY <1>6 DEF EncoderInput, ControlInput, Encoder, Capability
<1>7. \/ \E b \in DOMAIN BUTTON_CONTROLS : m = ButtonInput(b, TRUE) \/ m = ButtonInput(b, FALSE)
      \/ \E k \in DOMAIN KNOB_CONTROLS : m = EncoderInput(k, 1) \/ m = EncoderInput(k, -1)
  BY <1>1, Zenon DEF AllInputs
<1>8. ASSUME NEW b \in DOMAIN BUTTON_CONTROLS, m = ButtonInput(b, TRUE) \/ m = ButtonInput(b, FALSE)
      PROVE  \E c \in device : \E cap \in c.input_capabilities :
                /\ c.control_id = m.control_id
                /\ cap.capability_id = m.capability_id
                /\ m.event_type \in cap.event_types
  <2> DEFINE c == ControlDescriptor(b, BUTTON_CONTROLS[b], {Button}, {Led})
  <2>1. c \in device /\ c.control_id = b /\ Button \in c.input_capabilities
    BY <1>3
  <2>2. /\ m.control_id = b /\ m.capability_id = Button.capability_id
        /\ m.event_type \in Button.event_types
    BY <1>5, <1>8
  <2> HIDE DEF c
  <2> QED BY <2>1, <2>2, Zenon
<1>9. ASSUME NEW k \in DOMAIN KNOB_CONTROLS, m = EncoderInput(k, 1) \/ m = EncoderInput(k, -1)
      PROVE  \E c \in device : \E cap \in c.input_capabilities :
                /\ c.control_id = m.control_id
                /\ cap.capability_id = m.capability_id
                /\ m.event_type \in cap.event_types
  <2> DEFINE c == ControlDescriptor(k, KNOB_CONTROLS[k], {Encoder}, {})
  <2>1. c \in device /\ c.control_id = k /\ Encoder \in c.input_capabilities
    BY <1>4
  <2>2. /\ m.control_id = k /\ m.capability_id = Encoder.capability_id
        /\ m.event_type \in Encoder.event_types
    BY <1>6, <1>9
  <2> HIDE DEF c
  <2> QED BY <2>1, <2>2, Zenon
<1> QED BY <1>7, <1>8, <1>9, Zenon

\* Whatever the announced schemas allow is carried out.
LEMMA SchemaServed ==
    /\ \A b \in DOMAIN BUTTON_CONTROLS, params \in Schema["set"] :
          ~Ignored(HardwareOutputFromBody(
              [control_id |-> b, capability_id |-> Led.capability_id,
               command_type |-> "set", params |-> params]))
    /\ \A type \in {"set_frame", "clear"} : \A params \in Schema[type] :
          ~Ignored(HardwareOutputFromBody(
              [control_id |-> SCREEN, capability_id |-> Raster.capability_id,
               command_type |-> type, params |-> params]))
<1>1. ASSUME NEW b \in DOMAIN BUTTON_CONTROLS, NEW params \in Schema["set"]
      PROVE  ~Ignored(HardwareOutputFromBody(
                [control_id |-> b, capability_id |-> Led.capability_id,
                 command_type |-> "set", params |-> params]))
  <2> DEFINE body == [control_id |-> b, capability_id |-> Led.capability_id,
                      command_type |-> "set", params |-> params]
  <2>1. DOMAIN params = {"on"} /\ params["on"] \in {"true", "false"}
    BY DEF Schema
  <2>2. b \in DOMAIN LED_INDEX
    BY LampOfButton
  <2>3. LedSet(body)
    BY <2>1, <2>2 DEF LedSet, IsCommand, Led, Capability, HasLed
  <2>4. HardwareOutputFromBody(body).kind = "SetLed"
    BY <2>3 DEF HardwareOutputFromBody, HardwareOutput
  <2>5. Unsupported.kind # "SetLed"
    BY DEF Unsupported, HardwareOutput
  <2> HIDE DEF body
  <2>6. ~Ignored(HardwareOutputFromBody(body))
    BY <2>4, <2>5 DEF Ignored
  <2> QED BY <2>6 DEF body
<1>2. ASSUME NEW params \in Schema["set_frame"]
      PROVE  ~Ignored(HardwareOutputFromBody(
                [control_id |-> SCREEN, capability_id |-> Raster.capability_id,
                 command_type |-> "set_frame", params |-> params]))
  <2> DEFINE body == [control_id |-> SCREEN, capability_id |-> Raster.capability_id,
                      command_type |-> "set_frame", params |-> params]
  <2>1. /\ {"image", "encoding"} \subseteq DOMAIN params
        /\ params["image"] = "photo" /\ params["encoding"] \in {"jpeg", "png"}
    BY DEF Schema
  <2>2. ~LedSet(body) /\ SetFrame(body) /\ body.control_id = SCREEN
    BY <2>1 DEF LedSet, SetFrame, IsCommand, Raster, Capability, SCREEN, NoControl
  <2>3. /\ HardwareOutputFromBody(body).kind = "SetRasterFrame"
        /\ HardwareOutputFromBody(body).control_id = SCREEN
    BY <2>2 DEF HardwareOutputFromBody, HardwareOutput
  <2>4. Unsupported.kind # "SetRasterFrame"
    BY DEF Unsupported, HardwareOutput
  <2> HIDE DEF body
  <2>5. ~Ignored(HardwareOutputFromBody(body))
    BY <2>3, <2>4 DEF Ignored
  <2> QED BY <2>5 DEF body
<1>3. ASSUME NEW params \in Schema["clear"]
      PROVE  ~Ignored(HardwareOutputFromBody(
                [control_id |-> SCREEN, capability_id |-> Raster.capability_id,
                 command_type |-> "clear", params |-> params]))
  <2> DEFINE body == [control_id |-> SCREEN, capability_id |-> Raster.capability_id,
                      command_type |-> "clear", params |-> params]
  <2>1. DOMAIN params = {}
    BY DEF Schema
  <2>2. ~LedSet(body) /\ ~SetFrame(body) /\ Clear(body) /\ body.control_id = SCREEN
    BY <2>1 DEF LedSet, SetFrame, Clear, IsCommand, Raster, Capability, SCREEN, NoControl
  <2>3. /\ HardwareOutputFromBody(body).kind = "ClearRaster"
        /\ HardwareOutputFromBody(body).control_id = SCREEN
    BY <2>2 DEF HardwareOutputFromBody, HardwareOutput
  <2>4. Unsupported.kind # "ClearRaster"
    BY DEF Unsupported, HardwareOutput
  <2> HIDE DEF body
  <2>5. ~Ignored(HardwareOutputFromBody(body))
    BY <2>3, <2>4 DEF Ignored
  <2> QED BY <2>5 DEF body
<1> QED BY <1>1, <1>2, <1>3, Zenon

\* The outputs of the descriptor are served.
LEMMA CommandsServed ==
    ASSUME DeviceKept
    PROVE  AnnouncedIsServed
<1> SUFFICES ASSUME NEW c \in device, NEW cap \in c.output_capabilities,
                    NEW type \in cap.command_types, NEW params \in Schema[type]
             PROVE  ~Ignored(HardwareOutputFromBody(
                       [control_id |-> c.control_id, capability_id |-> cap.capability_id,
                        command_type |-> type, params |-> params]))
  BY DEF AnnouncedIsServed
<1>1. \/ c = ScreenControl
      \/ \E ins : c \in ButtonControls(ins)
      \/ c \in KnobControls
  <2>1. device = ControlDescriptors(has_hid)
    BY DEF DeviceKept, NoDevice
  <2> QED BY <2>1, Zenon DEF ControlDescriptors
<1>2. CASE c = ScreenControl
  <2>1. c.control_id = SCREEN /\ cap = Raster
    BY <1>2 DEF ScreenControl, ControlDescriptor
  <2>2. type \in {"set_frame", "clear"}
    BY <2>1 DEF Raster, Capability
  <2> QED BY <2>1, <2>2, SchemaServed, Zenon
<1>3. ASSUME NEW ins, c \in ButtonControls(ins)
      PROVE  ~Ignored(HardwareOutputFromBody(
                [control_id |-> c.control_id, capability_id |-> cap.capability_id,
                 command_type |-> type, params |-> params]))
  <2>1. PICK b \in DOMAIN BUTTON_CONTROLS :
           c = ControlDescriptor(b, BUTTON_CONTROLS[b], ins, {Led})
    BY <1>3, Zenon DEF ButtonControls
  <2>2. c.control_id = b /\ cap = Led
    BY <2>1 DEF ControlDescriptor
  <2>3. type = "set"
    BY <2>2 DEF Led, Capability
  <2> QED BY <2>2, <2>3, SchemaServed, Zenon
<1>4. CASE c \in KnobControls
  BY <1>4 DEF KnobControls, ControlDescriptor
<1> QED BY <1>1, <1>2, <1>3, <1>4, Zenon

\* The descriptor a device is announced with is kept to in both directions: what
\* translate_hid_event makes is among the inputs of descriptor.rs, and whatever a schema
\* of descriptor.rs allows is an output that hardware_output_from_body and
\* apply_hardware_output carry out.
THEOREM DescriptorKept == Spec => []DescriptorIsKept
<1>1. Init => ViewInv
  BY ViewInit
<1>2. ViewInv /\ [Next]_vars => ViewInv'
  BY ViewStep
<1>3. ViewInv => DescriptorIsKept
  BY InputOffered, CommandsServed DEF ViewInv, DescriptorIsKept
<1> QED BY <1>1, <1>2, <1>3, PTL DEF Spec

-----------------------------------------------------------------------------
(* Types. *)

RestTyped ==
    /\ picture \in {"nothing", "leftover", "frame", "notice"}
    /\ armed \in BOOLEAN /\ notice_shown \in BOOLEAN
    /\ effect \in {"None", "Frame", "Clear", "Reset"}
    /\ events \in 0..MaxEvents /\ sessions \in 0..MaxSessions

LEMMA RestInit == Init => RestTyped
<1>1. 0 \in 0..MaxEvents /\ 0 \in 0..MaxSessions
  BY PanelAssumption
<1>2. Init => /\ picture = "leftover" /\ effect = "None"
              /\ armed = FALSE /\ notice_shown = FALSE /\ events = 0 /\ sessions = 0
  BY DEF Init
<1> QED BY <1>1, <1>2 DEF RestTyped

\* The rest of the state keeps its types.
LEMMA RestStep ==
    ASSUME RestTyped, [Next]_vars
    PROVE  RestTyped'
<1> DEFINE Pictures == {"nothing", "leftover", "frame", "notice"}
           Watched == /\ armed \in BOOLEAN /\ notice_shown \in BOOLEAN
                      /\ effect \in {"None", "Frame", "Clear", "Reset"}
           Bounded == events \in 0..MaxEvents /\ sessions \in 0..MaxSessions
<1>1. picture \in Pictures /\ Watched /\ Bounded
  BY DEF RestTyped
<1>2. ASSUME picture' \in Pictures, Watched', Bounded' PROVE RestTyped'
  BY <1>2 DEF RestTyped
<1>3. ASSUME UNCHANGED <<armed, notice_shown, effect>> PROVE Watched'
  BY <1>1, <1>3
<1>4. ASSUME Count PROVE Bounded'
  BY <1>1, <1>4, PanelAssumption DEF Count
<1>5. ASSUME UNCHANGED <<events, sessions>> PROVE Bounded'
  BY <1>1, <1>5
<1>6. ASSUME Attempt PROVE Bounded'
  BY <1>1, <1>6, PanelAssumption DEF Attempt
<1>7. ASSUME Leave PROVE Watched'
  BY <1>7 DEF Leave
<1>8. ASSUME NEW e \in {"None", "Frame", "Clear", "Reset"}, Observe(e) PROVE Watched'
  BY <1>1, <1>8 DEF Observe
<1>9. ASSUME UNCHANGED picture PROVE picture' \in Pictures
  BY <1>1, <1>9
<1> HIDE DEF Pictures, Watched, Bounded
<1>10. ASSUME ResetPanel \/ ResetFails PROVE picture' \in Pictures
  <2>1. picture' = picture \/ picture' = PictureBy(ToBytes(ClearImagePacket(1)), "none")
    BY <1>10, Zenon DEF ResetPanel, ResetFails, DEFAULT_PAGE_ID
  <2>2. PictureBy(ToBytes(ClearImagePacket(1)), "none") = "nothing"
    BY ScreenCommands
  <2> QED BY <1>1, <2>1, <2>2 DEF Pictures
<1>11. ASSUME NEW body, NEW refused, ~Ignored(HardwareOutputFromBody(body)),
              CarryOut(HardwareOutputFromBody(body), refused)
       PROVE  picture' \in Pictures
  <2> DEFINE packet == PacketOf(HardwareOutputFromBody(body))
  <2>1. picture' = picture \/ picture' = PictureBy(ToBytes(packet), "frame")
    BY <1>11 DEF CarryOut
  <2>2. PictureBy(ToBytes(packet), "frame") \in {picture, "frame", "nothing"}
    BY DEF PictureBy
  <2> QED BY <1>1, <2>1, <2>2 DEF Pictures
<1>12. ASSUME NEW c \in Touched, Touch(c) PROVE RestTyped'
  BY <1>2, <1>3, <1>4, <1>9, <1>12 DEF Touch, panel, worker
<1>13. ASSUME NEW input \in BOOLEAN, Connect(input) PROVE RestTyped'
  <2>1. Watched'
    BY <1>13 DEF Connect, Serve, Watched
  <2> QED BY <1>2, <1>6, <1>9, <1>13, <2>1 DEF Connect
<1>14. CASE ConnectFails
  <2>1. Attempt /\ UNCHANGED <<hand, picture, worker, view>>
    BY <1>14, Zenon DEF ConnectFails
  <2> QED BY <1>2, <1>3, <1>6, <1>9, <2>1 DEF worker
<1>15. CASE StopOrFail
  <2>1. picture' \in Pictures
    <3>1. \/ ResetPanel \/ ResetFails
          \/ UNCHANGED <<hand, panel, ordered>>
          \/ picture' = "leftover"
      BY <1>15 DEF StopOrFail
    <3>2. CASE UNCHANGED <<hand, panel, ordered>>
      BY <1>9, <3>2 DEF panel
    <3>3. CASE picture' = "leftover"
      BY <3>3 DEF Pictures
    <3> QED BY <1>10, <3>1, <3>2, <3>3
  <2>2. Leave /\ UNCHANGED <<events, sessions>>
    BY <1>15, Zenon DEF StopOrFail
  <2> QED BY <1>2, <1>5, <1>7, <2>1, <2>2
<1>16. CASE ReadReport
  <2>1. UNCHANGED <<panel, armed, notice_shown, effect, events, sessions>>
    BY <1>16, Zenon DEF ReadReport
  <2> QED BY <1>2, <1>3, <1>5, <1>9, <2>1 DEF panel
<1>17. CASE ShortReport
  BY <1>2, <1>5, <1>7, <1>9, <1>17 DEF ShortReport, panel
<1>18. CASE ResetDevice
  <2>1. "Reset" \in {"None", "Frame", "Clear", "Reset"}
    OBVIOUS
  <2> QED BY <1>2, <1>4, <1>8, <1>10, <1>18, <2>1 DEF ResetDevice
<1>19. CASE ShowNotice
  <2>1. Count /\ \E refused \in BOOLEAN :
           /\ picture' = IF refused THEN picture
                         ELSE PictureBy(ToBytes(SetImagePacket(1)), "notice")
           /\ \/ notice_shown' = TRUE /\ UNCHANGED <<armed, effect>>
              \/ Leave
    BY <1>19 DEF ShowNotice, DEFAULT_PAGE_ID
  <2>2. PictureBy(ToBytes(SetImagePacket(1)), "notice") = "notice"
    BY ScreenCommands
  <2>3. picture' \in Pictures
    BY <1>1, <2>1, <2>2 DEF Pictures
  <2>4. Watched'
    BY <1>1, <1>7, <2>1 DEF Watched
  <2> QED BY <1>2, <1>4, <2>1, <2>3, <2>4
<1>20. ASSUME NEW body \in Bodies, Ignore(body) PROVE RestTyped'
  BY <1>2, <1>3, <1>4, <1>9, <1>20 DEF Ignore, panel, worker
<1>21. ASSUME NEW body \in Bodies, Undecodable(body) PROVE RestTyped'
  BY <1>2, <1>4, <1>7, <1>9, <1>21 DEF Undecodable, panel
<1>22. ASSUME NEW body \in Bodies, Apply(body) \/ Interrupted(body) PROVE RestTyped'
  <2>1. picture' \in Pictures /\ Count
    <3>1. PICK refused : CarryOut(HardwareOutputFromBody(body), refused)
      BY <1>22 DEF Apply, Interrupted
    <3>2. ~Ignored(HardwareOutputFromBody(body)) /\ Count
      BY <1>22 DEF Apply, Interrupted
    <3> QED BY <1>11, <3>1, <3>2
  <2>2. Observe("None") \/ Observe("Clear") \/ Observe("Frame") \/ Leave
    BY <1>22, OutputKinds DEF Apply, Interrupted
  <2>3. /\ "None" \in {"None", "Frame", "Clear", "Reset"}
        /\ "Frame" \in {"None", "Frame", "Clear", "Reset"}
        /\ "Clear" \in {"None", "Frame", "Clear", "Reset"}
    OBVIOUS
  <2>4. Watched'
    BY <1>7, <1>8, <2>2, <2>3
  <2> QED BY <1>2, <1>4, <2>1, <2>4
<1>23. CASE UNCHANGED vars
  BY <1>2, <1>3, <1>5, <1>9, <1>23 DEF vars, panel, worker
<1> QED BY <1>12, <1>13, <1>14, <1>15, <1>16, <1>17, <1>18, <1>19, <1>20, <1>21, <1>22, <1>23
        DEF Next

\* Every variable keeps its type: in particular a mask is one of sixteen bits, and what
\* a controller has been told of is always one of the three descriptors.
THEOREM TypeCorrect == Spec => []TypeOK
<1> DEFINE Inv == LampInv /\ RepliesTyped /\ ViewInv /\ RestTyped
<1>1. Init => Inv
  BY LampInit, RepliesInit, ViewInit, RestInit
<1>2. Inv /\ [Next]_vars => Inv'
  BY LampStep, RepliesStep, ViewStep, RestStep
<1>3. Inv => TypeOK
  <2> SUFFICES ASSUME Inv PROVE TypeOK
    OBVIOUS
  <2>1. lit \subseteq LampNames
    BY LampOfButton DEF LampInv, LampsAsOrdered
  <2>2. previous_mask \subseteq 0..15
    BY ContactBits DEF ViewInv, HandTyped, StepKept, BitsOf
  <2>3. device \in {NoDevice, ControlDescriptors(TRUE), ControlDescriptors(FALSE)}
    <3>1. has_hid = TRUE \/ has_hid = FALSE
      BY DEF ViewInv, DeviceKept
    <3>2. device = NoDevice \/ device = ControlDescriptors(has_hid)
      BY DEF ViewInv, DeviceKept
    <3> QED BY <3>1, <3>2, Zenon
  <2>4. report = NoReport \/ report \in (SUBSET (0..7)) \X (SUBSET (0..7))
    BY DEF ViewInv, HandTyped, PanelReport
  <2> QED BY <2>1, <2>2, <2>3, <2>4
          DEF TypeOK, LampInv, RepliesTyped, ViewInv, HandTyped, DeviceKept, StepKept, RestTyped
<1> HIDE DEF Inv
<1>4. Spec => []Inv
  BY <1>1, <1>2, PTL DEF Spec
<1> QED BY <1>3, <1>4, PTL
=============================================================================
