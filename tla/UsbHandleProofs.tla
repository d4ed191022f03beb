---------------------------- MODULE UsbHandleProofs ----------------------------
(***************************************************************************)
(* Proofs about UsbHandle, for every configuration of interfaces, every    *)
(* timeout and every tick: the kernel's drivers are restored, a working    *)
(* handle holds the interfaces of the endpoints it uses, and no transfer   *)
(* outlasts the deadline of its command. The inductive invariant says, for *)
(* each stage of opening and closing, what is claimed and detached. That   *)
(* enumeration finds a last interface rests on the well-foundedness of the *)
(* natural numbers.                                                        *)
(***************************************************************************)
EXTENDS UsbHandle, WellFoundedInduction, TLAPS

Vendor == candidate.vendor_interface
Hid == candidate.hid_interface

-----------------------------------------------------------------------------
(* What enumeration makes. *)

\* The interfaces of a candidate are those its endpoints belong to.
Owner(endpoint) == config[endpoint.descriptor].number

CandidateKept ==
    \/ candidate = NoCandidate
    \/ /\ Owner(candidate.bulk_out) = Vendor /\ Owner(candidate.bulk_in) = Vendor
       /\ Hid # NoInterface => Owner(candidate.hid_interrupt_in) = Hid

\* A candidate names the interfaces its endpoints belong to.
LEMMA Found ==
    \/ FindFipEndpoints = NoCandidate
    \/ LET c == FindFipEndpoints
       IN  /\ Owner(c.bulk_out) = c.vendor_interface /\ Owner(c.bulk_in) = c.vendor_interface
           /\ c.hid_interface # NoInterface => Owner(c.hid_interrupt_in) = c.hid_interface
<1> DEFINE pairs == Having("vendor", {"bulk_out", "bulk_in"})
           reads == Having("hid", {"interrupt_in"})
           c == FindFipEndpoints
<1>1. CASE pairs = {}
  BY <1>1 DEF FindFipEndpoints
<1>2. CASE pairs # {}
  <2>1. /\ c.vendor_interface = NumberOf(pairs)
        /\ c.bulk_out = EndpointOf(pairs, "bulk_out") /\ c.bulk_in = EndpointOf(pairs, "bulk_in")
        /\ c.hid_interface = NumberOf(reads)
        /\ c.hid_interrupt_in = EndpointOf(reads, "interrupt_in")
    BY <1>2 DEF FindFipEndpoints
  <2>2. ASSUME NEW found, NEW kind, found # {}
        PROVE  Owner(EndpointOf(found, kind)) = NumberOf(found)
    BY <2>2 DEF Owner, EndpointOf, NumberOf, Endpoint
  <2>3. NumberOf(reads) # NoInterface => reads # {}
    BY DEF NumberOf
  <2> HIDE DEF pairs, reads, c
  <2> QED BY <1>2, <2>1, <2>2, <2>3 DEF c
<1> QED BY <1>1, <1>2

-----------------------------------------------------------------------------
(* The inductive invariant. *)

\* The first or the second interface is being claimed.
First == interface = Vendor
Second == interface = Hid /\ Hid \notin {NoInterface, Vendor}

\* What is claimed, and whose driver is detached, at each stage.
Claimed ==
    /\ at = "idle" => claimed = <<>>
    /\ at \in Opening =>
          \/ First /\ claimed = <<>>
          \/ Second /\ claimed = <<Vendor>> /\ before = <<1, Len(detached)>>
    /\ at \in Working => claimed = <<Vendor>> \/ claimed = <<Vendor, Hid>>
    /\ at = "release" => claimed \in {<<>>, <<Vendor>>, <<Vendor, Hid>>}
    /\ at = "attach" => claimed = <<>>

Detached ==
    /\ at = "idle" => detached = <<>>
    /\ detached \in {<<>>, <<Vendor>>, <<Hid>>, <<Vendor, Hid>>}
    /\ at \in Opening \cup Working => ToSet(detached) \subseteq ToSet(claimed)

Held ==
    /\ at \in {"idle"} \cup Opening \cup Working => held = ToSet(claimed)
    /\ at \in Closing => held \subseteq ToSet(claimed) \cup refused

\* The drivers that are missing.
Missing ==
    had \ driver \subseteq
        ToSet(detached) \cup refused
            \cup (IF at \in {"claim", "restore"} /\ detached_here THEN {interface} ELSE {})

\* A handle says it has input only if there is an interface for it, and in the end only
\* if that is claimed.
Input ==
    /\ at \in Opening \cup Working /\ hid_input => Hid # NoInterface
    /\ at \in Working /\ hid_input => Hid \in held

Stages == {"idle"} \cup Opening \cup Working \cup Closing

HandleInv ==
    /\ CandidateKept
    /\ at # "idle" => candidate # NoCandidate
    /\ at \in Stages
    /\ at = "detach" => detached_here
    /\ Claimed /\ Detached /\ Held /\ Missing /\ Input

\* A sequence is known by its length and its elements.
LEMMA Known ==
    /\ \A S : \A s \in Seq(S) : Len(s) = 1 => s = <<s[1]>>
    /\ \A S : \A s \in Seq(S) : Len(s) = 2 => s = <<s[1], s[2]>>
OBVIOUS

\* Sequences of two at most.
LEMMA Short ==
    /\ ToSet(<<>>) = {} /\ Len(<<>>) = 0
    /\ \A a : /\ ToSet(<<a>>) = {a} /\ Len(<<a>>) = 1
              /\ Front(<<a>>) = <<>> /\ Last(<<a>>) = a
              /\ Append(<<>>, a) = <<a>>
              /\ SubSeq(<<a>>, 1, 1) = <<a>> /\ SubSeq(<<a>>, 1 + 1, 1) = <<>>
              /\ SubSeq(<<a>>, 1, 0) = <<>>
    /\ \A a, b : /\ ToSet(<<a, b>>) = {a, b} /\ Len(<<a, b>>) = 2
                 /\ Front(<<a, b>>) = <<a>> /\ Last(<<a, b>>) = b
                 /\ Append(<<a>>, b) = <<a, b>>
<1>1. ToSet(<<>>) = {} /\ Len(<<>>) = 0
  BY DEF ToSet
<1>2. ASSUME NEW a
      PROVE  /\ ToSet(<<a>>) = {a} /\ Len(<<a>>) = 1
             /\ Front(<<a>>) = <<>> /\ Last(<<a>>) = a
             /\ Append(<<>>, a) = <<a>>
             /\ SubSeq(<<a>>, 1, 1) = <<a>> /\ SubSeq(<<a>>, 1 + 1, 1) = <<>>
             /\ SubSeq(<<a>>, 1, 0) = <<>>
  <2>1. ToSet(<<a>>) = {a}
    BY DEF ToSet
  <2>2. Len(<<a>>) = 1 /\ Last(<<a>>) = a /\ Append(<<>>, a) = <<a>>
    BY DEF Last
  <2>3. Front(<<a>>) = <<>>
    BY DEF Front
  <2>4. SubSeq(<<a>>, 1, 1) = <<a>>
    <3>1. <<a>> \in Seq({a})
      OBVIOUS
    <3>2. /\ SubSeq(<<a>>, 1, 1) \in Seq({a}) /\ Len(SubSeq(<<a>>, 1, 1)) = 1
          /\ SubSeq(<<a>>, 1, 1)[1] = a
      BY <3>1
    <3> QED BY <3>2, Known, Zenon
  <2>5. SubSeq(<<a>>, 1 + 1, 1) = <<>> /\ SubSeq(<<a>>, 1, 0) = <<>>
    OBVIOUS
  <2> QED BY <2>1, <2>2, <2>3, <2>4, <2>5
<1>3. ASSUME NEW a, NEW b
      PROVE  /\ ToSet(<<a, b>>) = {a, b} /\ Len(<<a, b>>) = 2
             /\ Front(<<a, b>>) = <<a>> /\ Last(<<a, b>>) = b
             /\ Append(<<a>>, b) = <<a, b>>
  <2>1. ToSet(<<a, b>>) = {a, b}
    BY DEF ToSet
  <2>2. Len(<<a, b>>) = 2 /\ Last(<<a, b>>) = b
    BY DEF Last
  <2>3. Front(<<a, b>>) = <<a>>
    <3>1. <<a, b>> \in Seq({a, b}) /\ Front(<<a, b>>) = SubSeq(<<a, b>>, 1, 1)
      BY <2>2 DEF Front
    <3>2. /\ SubSeq(<<a, b>>, 1, 1) \in Seq({a, b}) /\ Len(SubSeq(<<a, b>>, 1, 1)) = 1
          /\ SubSeq(<<a, b>>, 1, 1)[1] = a
      BY <3>1
    <3> QED BY <3>1, <3>2
  <2>4. Append(<<a>>, b) = <<a, b>>
    <3>1. <<a>> \in Seq({a, b}) /\ b \in {a, b}
      OBVIOUS
    <3>2. /\ Append(<<a>>, b) \in Seq({a, b}) /\ Len(Append(<<a>>, b)) = 2
          /\ Append(<<a>>, b)[1] = a /\ Append(<<a>>, b)[2] = b
      BY <3>1
    <3> QED BY <3>2, Known, Zenon
  <2> QED BY <2>1, <2>2, <2>3, <2>4
<1> QED BY <1>1, <1>2, <1>3

\* Every configuration starts with the books in order.
LEMMA HandleInit == Init => HandleInv
BY Short DEF Init, HandleInv, CandidateKept, Stages, Claimed, Detached, Held, Missing, Input,
             Opening, Working, Closing

\* An attempt that fails gives up what it added and nothing else.
LEMMA AttemptFails ==
    ASSUME HandleInv, at \in {"detach", "claim", "restore"}, ClaimFailed,
           UNCHANGED <<config, candidate, had>>, refused \subseteq refused',
           had \ driver' \subseteq ToSet(detached) \cup refused'
    PROVE  HandleInv'
<1> USE DEF Opening, Working, Closing
<1>1. /\ CandidateKept /\ candidate # NoCandidate /\ at \in Opening
      /\ \/ First /\ claimed = <<>>
         \/ Second /\ claimed = <<Vendor>> /\ before = <<1, Len(detached)>>
      /\ detached \in {<<>>, <<Vendor>>, <<Hid>>, <<Vendor, Hid>>}
      /\ ToSet(detached) \subseteq ToSet(claimed) /\ held = ToSet(claimed)
  BY DEF HandleInv, Claimed, Detached, Held
<1>2. CandidateKept' /\ candidate' = candidate /\ Vendor' = Vendor /\ Hid' = Hid
  BY <1>1 DEF CandidateKept, Owner, Vendor, Hid
<1>3. CASE First /\ claimed = <<>>
  <2>1. at' = "idle" /\ UNCHANGED <<claimed, detached, held>>
    BY <1>3 DEF ClaimFailed, First, Vendor
  <2>2. detached = <<>>
    BY <1>1, <1>3, Short
  <2> QED BY <1>1, <1>2, <1>3, <2>1, <2>2, Short
          DEF HandleInv, Stages, Claimed, Detached, Held, Missing, Input
<1>4. CASE Second /\ claimed = <<Vendor>> /\ before = <<1, Len(detached)>>
  <2>1. Rollback /\ hid_input' = FALSE /\ at' = "open"
    BY <1>4 DEF ClaimFailed, Opened, Second, Vendor
  <2>2. claimed' = claimed
    BY <1>4, <2>1, Short DEF Rollback
  <2>3. held' = held
    BY <1>4, <2>1, Short DEF Rollback
  <2>4. detached' = detached
    <3>1. detached = <<>> \/ detached = <<Vendor>>
      BY <1>1, <1>4, Short DEF Second
    <3>2. detached' = SubSeq(detached, 1, Len(detached))
      BY <1>4, <2>1 DEF Rollback
    <3> QED BY <3>1, <3>2, Short
  <2> QED BY <1>1, <1>2, <1>4, <2>1, <2>2, <2>3, <2>4
          DEF HandleInv, Stages, Claimed, Detached, Held, Missing, Input
<1> QED BY <1>1, <1>3, <1>4

\* Taking back what was claimed and detached.
LEMMA Shorter ==
    ASSUME NEW v, NEW h, NEW s, s = <<v>> \/ s = <<h>> \/ s = <<v, h>>
    PROVE  /\ Front(s) = <<>> \/ Front(s) = <<v>>
           /\ ToSet(s) = ToSet(Front(s)) \cup {Last(s)}
<1>1. ASSUME NEW a, s = <<a>>
      PROVE  Front(s) = <<>> /\ ToSet(s) = ToSet(Front(s)) \cup {Last(s)}
  <2>1. Front(s) = <<>> /\ Last(s) = a /\ ToSet(s) = {a} /\ ToSet(<<>>) = {}
    BY <1>1, Short, Zenon
  <2> QED BY <2>1
<1>2. ASSUME s = <<v, h>>
      PROVE  Front(s) = <<v>> /\ ToSet(s) = ToSet(Front(s)) \cup {Last(s)}
  <2>1. Front(s) = <<v>> /\ Last(s) = h /\ ToSet(s) = {v, h} /\ ToSet(<<v>>) = {v}
    BY <1>2, Short, Zenon
  <2> QED BY <2>1
<1> QED BY <1>1, <1>2, Zenon

\* Every step keeps them in order, those that fail as well.
LEMMA HandleStep ==
    ASSUME HandleInv, [Next]_vars
    PROVE  HandleInv'
<1> USE DEF Opening, Working, Closing
<1>1. /\ CandidateKept
      /\ at # "idle" => candidate # NoCandidate
      /\ at \in Stages
      /\ at = "detach" => detached_here
      /\ Claimed /\ Detached /\ Held /\ Missing /\ Input
  BY DEF HandleInv
<1>2. ASSUME UNCHANGED <<config, candidate>>
      PROVE  CandidateKept' /\ Vendor' = Vendor /\ Hid' = Hid
  <2>1. candidate' = candidate /\ config' = config
    BY <1>2
  <2>2. Vendor' = Vendor /\ Hid' = Hid
    BY <2>1 DEF Vendor, Hid
  <2> QED BY <1>1, <2>1, <2>2 DEF CandidateKept, Owner
<1>3. ASSUME UNCHANGED <<interface, books, device>>,
             at' = at \/ (at \in Working /\ at' \in Working)
      PROVE  HandleInv'
  <2>1. CandidateKept' /\ Vendor' = Vendor /\ Hid' = Hid
    BY <1>2, <1>3 DEF books
  <2>2. CASE at' = at
    BY <1>1, <1>3, <2>1, <2>2
       DEF HandleInv, Stages, Claimed, Detached, Held, Missing, Input, First, Second, books, device
  <2>3. CASE at \in Working /\ at' \in Working
    BY <1>1, <1>3, <2>1, <2>3
       DEF HandleInv, Stages, Claimed, Detached, Held, Missing, Input, books, device
  <2> QED BY <1>3, <2>2, <2>3
<1>4. CASE Enumerate
  <2>1. CandidateKept'
    BY <1>4, Found DEF Enumerate, CandidateKept, Owner, NoCandidate, Vendor, Hid
  <2>2. /\ claimed = <<>> /\ detached = <<>> /\ held = {} /\ had \ driver \subseteq refused
    BY <1>1, <1>4, Short DEF Enumerate, Claimed, Detached, Held, Missing
  <2>3. at = "idle" /\ UNCHANGED <<at, claimed, detached, held, had, driver, refused>>
    BY <1>4 DEF Enumerate, device
  <2> QED BY <2>1, <2>2, <2>3, Short
          DEF HandleInv, Stages, Claimed, Detached, Held, Missing, Input
<1>5. CASE Open
  <2>1. CandidateKept' /\ Vendor' = Vendor /\ Hid' = Hid
    BY <1>2, <1>5 DEF Open
  <2>2. claimed = <<>> /\ detached = <<>> /\ held = {}
    BY <1>1, <1>5, Short DEF Open, Claimed, Detached, Held
  <2>3. /\ at' = "query" /\ First' /\ candidate' # NoCandidate
        /\ hid_input' => Hid' # NoInterface
        /\ UNCHANGED <<claimed, detached, held>> /\ had' = driver' /\ refused' = {}
    BY <1>5, <2>1 DEF Open, First, Vendor, Hid
  <2> QED BY <2>1, <2>2, <2>3, Short
          DEF HandleInv, Stages, Claimed, Detached, Held, Missing, Input
<1>6. CASE Query
  <2>1. CandidateKept' /\ Vendor' = Vendor /\ Hid' = Hid
    BY <1>2, <1>6 DEF Query
  <2>2. /\ at = "query" /\ at' \in {"detach", "claim"} /\ (at' = "detach" => detached_here')
        /\ UNCHANGED <<interface, candidate, hid_input, claimed, detached, before, device>>
    BY <1>6, Zenon DEF Query
  <2>3. had \ driver \subseteq ToSet(detached) \cup refused
    BY <1>1, <2>2 DEF Missing
  <2> QED BY <1>1, <2>1, <2>2, <2>3
          DEF HandleInv, Stages, Claimed, Detached, Held, Missing, Input, First, Second, device
<1>7. CASE Detach
  <2>1. had \ driver \subseteq ToSet(detached) \cup refused /\ at = "detach"
    BY <1>1, <1>7 DEF Detach, Missing
  <2>2. CASE ClaimFailed /\ UNCHANGED driver
    BY <1>7, <2>1, <2>2, AttemptFails DEF Detach
  <2>3. CASE driver' = driver \ {interface} /\ at' = "claim"
                /\ UNCHANGED <<interface, hid_input, claimed, detached, before, held>>
    <3>1. CandidateKept' /\ Vendor' = Vendor /\ Hid' = Hid
      BY <1>2, <1>7 DEF Detach
    <3>2. detached_here' /\ at' = "claim" /\ UNCHANGED <<detached, interface, had, refused>>
      BY <1>1, <1>7, <2>1, <2>3 DEF Detach
    <3>3. Missing'
      BY <2>1, <2>3, <3>2 DEF Missing
    <3> QED BY <1>1, <1>7, <2>1, <2>3, <3>1, <3>2, <3>3
            DEF Detach, HandleInv, Stages, Claimed, Detached, Held, Input, First, Second
  <2> QED BY <1>7, <2>2, <2>3 DEF Detach
<1>8. CASE Claim
  <2>1. CandidateKept' /\ Vendor' = Vendor /\ Hid' = Hid
    BY <1>2, <1>8 DEF Claim
  <2>2. /\ at = "claim" /\ held' = held \cup {interface} /\ claimed' = Append(claimed, interface)
        /\ detached' = IF detached_here THEN Append(detached, interface) ELSE detached
        /\ UNCHANGED <<candidate, hid_input, detached_here, driver, had, refused>>
        /\ ClaimNext
    BY <1>8 DEF Claim
  <2>3. /\ held = ToSet(claimed)
        /\ hid_input => Hid # NoInterface
        /\ candidate # NoCandidate /\ ToSet(detached) \subseteq ToSet(claimed)
    BY <1>1, <2>2 DEF Held, Input, Detached
  <2>4. \/ First /\ claimed = <<>> /\ detached = <<>>
        \/ /\ Second /\ claimed = <<Vendor>>
           /\ detached \in {<<>>, <<Vendor>>}
    <3>1. \/ First /\ claimed = <<>>
          \/ Second /\ claimed = <<Vendor>>
      BY <1>1, <2>2 DEF Claimed
    <3>2. detached \in {<<>>, <<Vendor>>, <<Hid>>, <<Vendor, Hid>>}
      BY <1>1 DEF Detached
    <3> QED BY <2>3, <3>1, <3>2, Short DEF Second
  <2>5. /\ ToSet(claimed') = ToSet(claimed) \cup {interface}
        /\ ToSet(detached') = ToSet(detached) \cup (IF detached_here THEN {interface} ELSE {})
        /\ First => (claimed' = <<Vendor>> /\ detached' \in {<<>>, <<Vendor>>})
        /\ Second => /\ claimed' = <<Vendor, Hid>>
                     /\ detached' \in {<<>>, <<Vendor>>, <<Hid>>, <<Vendor, Hid>>}
    <3>1. CASE First /\ claimed = <<>> /\ detached = <<>>
      <4>1. interface = Vendor
        BY <3>1 DEF First
      <4>2. claimed' = <<interface>> /\ detached' \in {<<>>, <<interface>>}
        BY <2>2, <3>1, Short
      <4>3. /\ ToSet(claimed') = ToSet(claimed) \cup {interface}
            /\ ToSet(detached') =
                  ToSet(detached) \cup (IF detached_here THEN {interface} ELSE {})
        BY <2>2, <3>1, <4>2, Short
      <4> QED BY <3>1, <4>1, <4>2, <4>3 DEF Second
    <3>2. CASE Second /\ claimed = <<Vendor>> /\ detached \in {<<>>, <<Vendor>>}
      <4>1. interface = Hid /\ ~First
        BY <3>2 DEF First, Second
      <4>2. claimed' = <<Vendor, interface>>
        BY <2>2, <3>2, Short
      <4>3. ToSet(claimed') = ToSet(claimed) \cup {interface}
        BY <3>2, <4>2, Short
      <4>4. /\ detached' \in {<<>>, <<Vendor>>, <<interface>>, <<Vendor, interface>>}
            /\ ToSet(detached') =
                  ToSet(detached) \cup (IF detached_here THEN {interface} ELSE {})
        <5>1. CASE detached_here /\ detached = <<>>
          BY <2>2, <5>1, Short
        <5>2. CASE detached_here /\ detached = <<Vendor>>
          <6>1. detached' = Append(<<Vendor>>, interface) /\ detached = <<Vendor>>
            BY <2>2, <5>2
          <6>2. /\ Append(<<Vendor>>, interface) = <<Vendor, interface>>
                /\ ToSet(<<Vendor, interface>>) = {Vendor, interface}
                /\ ToSet(<<Vendor>>) = {Vendor}
            BY Short, Zenon
          <6>3. detached' = <<Vendor, interface>>
            BY <6>1, <6>2
          <6>4. ToSet(detached') = {Vendor, interface} /\ ToSet(detached) = {Vendor}
            BY <6>1, <6>2, <6>3, Zenon
          <6>5. ToSet(detached') = ToSet(detached) \cup {interface}
            BY <6>4
          <6> QED BY <5>2, <6>3, <6>5, Zenon
        <5>3. CASE ~detached_here
          BY <2>2, <3>2, <5>3
        <5> QED BY <3>2, <5>1, <5>2, <5>3
      <4> QED BY <4>1, <4>2, <4>3, <4>4
    <3> QED BY <2>4, <3>1, <3>2
  <2>6. /\ detached' \in {<<>>, <<Vendor>>, <<Hid>>, <<Vendor, Hid>>}
        /\ ToSet(detached') \subseteq ToSet(claimed') /\ held' = ToSet(claimed')
    BY <2>2, <2>3, <2>4, <2>5
  <2>7. had' \ driver' \subseteq ToSet(detached') \cup refused'
    BY <1>1, <2>2, <2>5 DEF Missing
  <2>8. CASE First /\ Hid \notin {NoInterface, Vendor}
    <3>1. at' = "query" /\ interface' = Hid /\ before' = <<Len(claimed'), Len(detached')>>
      BY <2>2, <2>8 DEF ClaimNext, First, Vendor, Hid
    <3>2. Second' /\ claimed' = <<Vendor>> /\ Len(claimed') = 1
      BY <2>1, <2>5, <2>8, <3>1, Short DEF Second
    <3> QED BY <2>1, <2>2, <2>3, <2>6, <2>7, <3>1, <3>2
            DEF HandleInv, Stages, Claimed, Detached, Held, Missing, Input
  <2>9. CASE ~(First /\ Hid \notin {NoInterface, Vendor})
    <3>1. at' = "open"
      BY <2>2, <2>9 DEF ClaimNext, Opened, First, Vendor, Hid
    <3>2. claimed' \in {<<Vendor>>, <<Vendor, Hid>>}
      BY <2>4, <2>5
    <3>3. hid_input' => Hid \in held'
      BY <2>2, <2>3, <2>4, <2>9 DEF First, Second
    <3> QED BY <2>1, <2>2, <2>3, <2>6, <2>7, <3>1, <3>2, <3>3
            DEF HandleInv, Stages, Claimed, Detached, Held, Missing, Input
  <2> QED BY <2>8, <2>9
<1>9. CASE ClaimRefused
  <2>1. at = "claim" /\ UNCHANGED <<config, candidate, detached_here, driver, had, refused>>
    BY <1>9 DEF ClaimRefused
  <2>2. CASE /\ detached_here /\ at' = "restore"
             /\ UNCHANGED <<interface, hid_input, claimed, detached, before, held>>
    <3>1. CandidateKept' /\ Vendor' = Vendor /\ Hid' = Hid
      BY <1>2, <2>1
    <3> QED BY <1>1, <2>1, <2>2, <3>1
            DEF HandleInv, Stages, Claimed, Detached, Held, Missing, Input, First, Second
  <2>3. CASE ~detached_here /\ ClaimFailed
    <3>1. had \ driver' \subseteq ToSet(detached) \cup refused'
      BY <1>1, <2>1, <2>3 DEF Missing
    <3> QED BY <2>1, <2>3, <3>1, AttemptFails
  <2> QED BY <1>9, <2>2, <2>3 DEF ClaimRefused
<1>10. CASE Restore
  <2>1. at = "restore" /\ Attach(interface) /\ ClaimFailed /\ UNCHANGED <<config, candidate, had>>
    BY <1>10 DEF Restore
  <2>2. interface \notin held
    <3>1. /\ held = ToSet(claimed)
          /\ \/ First /\ claimed = <<>>
             \/ Second /\ claimed = <<Vendor>>
      BY <1>1, <2>1 DEF Held, Claimed
    <3> QED BY <3>1, Short DEF Second
  <2>3. refused \subseteq refused' /\ had \ driver' \subseteq ToSet(detached) \cup refused'
    BY <1>1, <2>1, <2>2 DEF Attach, Missing
  <2> QED BY <2>1, <2>3, AttemptFails
<1>11. CASE Transceive \/ Issue \/ CallReturns \/ CallFails
  BY <1>3, <1>11 DEF Transceive, Issue, CallReturns, CallFails
<1>12. CASE Close
  <2>1. at = "open" /\ at' = "release" /\ UNCHANGED <<books, device>>
    BY <1>12 DEF Close
  <2>2. CandidateKept' /\ Vendor' = Vendor /\ Hid' = Hid
    BY <1>2, <2>1 DEF books
  <2> QED BY <1>1, <2>1, <2>2
          DEF HandleInv, Stages, Claimed, Detached, Held, Missing, Input, books, device
<1>13. CASE Release
  <2>1. /\ at = "release" /\ at' = at /\ claimed # <<>> /\ claimed' = Front(claimed)
        /\ \/ held' = held \ {Last(claimed)} /\ UNCHANGED refused
           \/ refused' = refused \cup {Last(claimed)} /\ UNCHANGED held
        /\ UNCHANGED <<config, candidate, detached, detached_here, driver, had>>
    BY <1>13 DEF Release
  <2>2. CandidateKept' /\ Vendor' = Vendor /\ Hid' = Hid
    BY <1>2, <2>1
  <2>3. claimed \in {<<Vendor>>, <<Vendor, Hid>>}
    BY <1>1, <2>1 DEF Claimed
  <2>4. /\ claimed' \in {<<>>, <<Vendor>>}
        /\ ToSet(claimed) = ToSet(claimed') \cup {Last(claimed)}
    <3>1. claimed = <<Vendor>> \/ claimed = <<Hid>> \/ claimed = <<Vendor, Hid>>
      BY <2>3
    <3>2. /\ Front(claimed) = <<>> \/ Front(claimed) = <<Vendor>>
          /\ ToSet(claimed) = ToSet(Front(claimed)) \cup {Last(claimed)}
      BY <3>1, Shorter, Zenon
    <3> QED BY <2>1, <3>2
  <2>5. held' \subseteq ToSet(claimed') \cup refused'
    BY <1>1, <2>1, <2>4 DEF Held
  <2>6. Missing'
    BY <1>1, <2>1 DEF Missing
  <2> QED BY <1>1, <2>1, <2>2, <2>4, <2>5, <2>6
          DEF HandleInv, Stages, Claimed, Detached, Held, Input
<1>14. CASE Released
  <2>1. at = "release" /\ claimed = <<>> /\ at' = "attach" /\ UNCHANGED <<books, device>>
    BY <1>14 DEF Released
  <2>2. CandidateKept' /\ Vendor' = Vendor /\ Hid' = Hid
    BY <1>2, <2>1 DEF books
  <2> QED BY <1>1, <2>1, <2>2
          DEF HandleInv, Stages, Claimed, Detached, Held, Missing, Input, books, device
<1>15. CASE AttachLast
  <2>1. /\ at = "attach" /\ at' = at /\ detached # <<>> /\ detached' = Front(detached)
        /\ Attach(Last(detached))
        /\ UNCHANGED <<config, candidate, claimed, held, had>>
    BY <1>15 DEF AttachLast
  <2>2. CandidateKept' /\ Vendor' = Vendor /\ Hid' = Hid
    BY <1>2, <2>1
  <2>3. detached \in {<<Vendor>>, <<Hid>>, <<Vendor, Hid>>}
    BY <1>1, <2>1 DEF Detached
  <2>4. /\ detached' \in {<<>>, <<Vendor>>}
        /\ ToSet(detached) = ToSet(detached') \cup {Last(detached)}
    <3>1. detached = <<Vendor>> \/ detached = <<Hid>> \/ detached = <<Vendor, Hid>>
      BY <2>3
    <3>2. /\ Front(detached) = <<>> \/ Front(detached) = <<Vendor>>
          /\ ToSet(detached) = ToSet(Front(detached)) \cup {Last(detached)}
      BY <3>1, Shorter, Zenon
    <3> QED BY <2>1, <3>2
  <2>5. held \subseteq refused
    BY <1>1, <2>1, Short DEF Held, Claimed
  <2>6. Missing' /\ refused \subseteq refused'
    BY <1>1, <2>1, <2>4, <2>5 DEF Missing, Attach
  <2> QED BY <1>1, <2>1, <2>2, <2>4, <2>6
          DEF HandleInv, Stages, Claimed, Detached, Held, Input
<1>16. CASE Closed
  <2>1. /\ at = "attach" /\ detached = <<>> /\ at' = "idle" /\ held' = {}
        /\ UNCHANGED <<config, candidate, claimed, detached, driver, had, refused>>
    BY <1>16 DEF Closed
  <2>2. CandidateKept' /\ Vendor' = Vendor /\ Hid' = Hid
    BY <1>2, <2>1
  <2> QED BY <1>1, <2>1, <2>2, Short
          DEF HandleInv, Stages, Claimed, Detached, Held, Missing, Input
<1>17. CASE UNCHANGED vars
  BY <1>3, <1>17 DEF vars
<1> QED BY <1>4, <1>5, <1>6, <1>7, <1>8, <1>9, <1>10, <1>11, <1>12, <1>13, <1>14, <1>15, <1>16,
           <1>17 DEF Next

-----------------------------------------------------------------------------
(* The theorems. *)

\* The handle keeps the books of its interfaces at every stage.
LEMMA HandleHolds == Spec => []HandleInv
<1>1. Init => HandleInv
  BY HandleInit
<1>2. HandleInv /\ [Next]_vars => HandleInv'
  BY HandleStep
<1> QED BY <1>1, <1>2, PTL DEF Spec

\* Whatever fails, a handle that works or is gone leaves no driver detached but those of
\* the interfaces it holds, and those whose attach or release call failed.
THEOREM Restores == Spec => []Restored
<1>1. HandleInv => Restored
  <2>1. ASSUME HandleInv, at = "idle"
        PROVE  held = {} /\ claimed = <<>> /\ detached = <<>> /\ had \ driver \subseteq refused
    BY <2>1, Short DEF HandleInv, Claimed, Detached, Held, Missing
  <2>2. ASSUME HandleInv, at \in Working
        PROVE  had \ driver \subseteq held \cup refused
    BY <2>2 DEF HandleInv, Detached, Held, Missing, Opening, Working, Closing
  <2>3. Working \cap {"idle"} = {}
    BY DEF Working
  <2> QED BY <2>1, <2>2, <2>3 DEF Restored
<1> QED BY <1>1, HandleHolds, PTL

\* A working handle holds the interfaces of the endpoints it uses.
THEOREM ClaimsEndpoints == Spec => []EndpointsClaimed
<1>1. HandleInv => EndpointsClaimed
  <2>1. ASSUME HandleInv, at \in Working
        PROVE  /\ {Owner(candidate.bulk_out), Owner(candidate.bulk_in)} \subseteq held
               /\ hid_input => Owner(candidate.hid_interrupt_in) \in held
    <3>1. /\ candidate # NoCandidate /\ CandidateKept
          /\ held = ToSet(claimed)
          /\ claimed = <<Vendor>> \/ claimed = <<Vendor, Hid>>
      BY <2>1 DEF HandleInv, Claimed, Held, Working
    <3>2. Vendor \in held
      BY <3>1, Short
    <3>3. hid_input => Hid \in held /\ Hid # NoInterface
      BY <2>1 DEF HandleInv, Input
    <3> QED BY <3>1, <3>2, <3>3 DEF CandidateKept
  <2> QED BY <2>1 DEF EndpointsClaimed, Owner
<1> QED BY <1>1, HandleHolds, PTL

-----------------------------------------------------------------------------
(* The deadline of a command. *)

\* The clock and the rest of the command's time.
Timely ==
    /\ now \in Nat /\ deadline \in 0..Timeout /\ wait \in Nat
    /\ DeadlineHolds

\* Whole milliseconds are never more than the time they are taken from.
LEMMA WholeMillis ==
    ASSUME NEW x \in Nat, NEW t \in Nat \ {0}
    PROVE  x \div t \in Nat /\ (x \div t) * t <= x
OBVIOUS

\* No transfer is given more time than its command has left.
THEOREM KeepsDeadline == Spec => []DeadlineHolds
<1>1. Init => Timely
  BY UsbHandleAssumption DEF Init, Timely, DeadlineHolds
<1>2. ASSUME Timely, [Next]_vars
      PROVE  Timely'
  <2>1. CASE UNCHANGED timing /\ at' # "call"
    BY <1>2, <2>1 DEF Timely, DeadlineHolds, timing
  <2>2. CASE UNCHANGED vars
    BY <1>2, <2>2 DEF Timely, DeadlineHolds, timing, vars
  <2>3. CASE Transceive
    BY <1>2, <2>3, UsbHandleAssumption DEF Transceive, Timely, DeadlineHolds
  <2>4. CASE Issue
    <3>1. RemainingTimeout \in Nat /\ (RemainingTimeout > 0 =>
             now + RemainingTimeout * TicksPerMilli <= deadline)
      <4>1. CASE now <= deadline
        <5>1. deadline - now \in Nat /\ TicksPerMilli \in Nat \ {0} /\ now \in Nat
              /\ deadline \in Nat
          BY <1>2, <4>1, UsbHandleAssumption DEF Timely
        <5> DEFINE q == (deadline - now) \div TicksPerMilli
        <5>2. q \in Nat /\ q * TicksPerMilli <= deadline - now
          BY <5>1, WholeMillis
        <5>3. RemainingTimeout = q
          BY <4>1 DEF RemainingTimeout
        <5>4. q * TicksPerMilli \in Nat
          BY <5>1, <5>2
        <5> DEFINE p == q * TicksPerMilli
        <5> HIDE DEF q, p
        <5>5. p \in Nat /\ p <= deadline - now
          BY <5>2, <5>4 DEF p
        <5>6. now + p <= deadline
          BY <5>1, <5>5
        <5> QED BY <5>2, <5>3, <5>6 DEF p
      <4>2. CASE ~(now <= deadline)
        BY <4>2 DEF RemainingTimeout
      <4> QED BY <4>1, <4>2
    <3>2. /\ wait' = RemainingTimeout /\ UNCHANGED <<now, deadline>>
          /\ at' = "call" => RemainingTimeout > 0
      BY <2>4 DEF Issue
    <3>3. wait' * TicksPerMilli \in Nat
      BY <3>1, <3>2, UsbHandleAssumption
    <3> DEFINE p == wait' * TicksPerMilli
    <3>4. at' = "call" => now' + p <= deadline'
      BY <3>1, <3>2
    <3> HIDE DEF p
    <3>5. at' = "call" => now' + p <= Timeout
      BY <1>2, <3>2, <3>3, <3>4, UsbHandleAssumption DEF Timely, p
    <3> QED BY <1>2, <3>1, <3>2, <3>5 DEF Timely, DeadlineHolds, p
  <2>5. CASE CallReturns
    <3>1. now' \in now..MaxNow /\ at' # "call" /\ UNCHANGED <<deadline, wait>>
      BY <2>5 DEF CallReturns
    <3>2. now' \in Nat
      BY <1>2, <3>1, UsbHandleAssumption DEF Timely, MaxNow
    <3> QED BY <1>2, <3>1, <3>2 DEF Timely, DeadlineHolds
  <2>6. CASE Enumerate \/ Release \/ AttachLast
    BY <1>2, <2>6 DEF Enumerate, Release, AttachLast, Timely, DeadlineHolds, timing
  <2>7. CASE Open \/ Query \/ CallFails \/ Close \/ Released \/ Closed
    BY <2>1, <2>7 DEF Open, Query, CallFails, Close, Released, Closed
  <2>8. CASE Detach \/ Claim \/ ClaimRefused \/ Restore
    BY <2>1, <2>8 DEF Detach, Claim, ClaimNext, ClaimRefused, Restore, ClaimFailed, Opened
  <2> QED BY <1>2, <2>2, <2>3, <2>4, <2>5, <2>6, <2>7, <2>8 DEF Next
<1>3. Timely => DeadlineHolds
  BY DEF Timely
<1> QED BY <1>1, <1>2, <1>3, PTL DEF Spec

-----------------------------------------------------------------------------
(* Types. *)

\* The last of some positions is one of them.
LEMMA Greatest ==
    ASSUME NEW n \in Nat, NEW found \in SUBSET (1..n), found # {}
    PROVE  LastOf(found) \in found
<1> DEFINE below == {n - i : i \in found}
           Less == OpToRel(<, Nat)
<1>0. \A i \in found : i \in 1..n /\ n - i \in Nat
  OBVIOUS
<1>1. below \subseteq Nat /\ below # {}
  <2>1. PICK i \in found : TRUE
    OBVIOUS
  <2>2. n - i \in below
    OBVIOUS
  <2>3. \A y \in below : y \in Nat
    BY <1>0
  <2> QED BY <2>2, <2>3
<1>2. IsWellFoundedOn(Less, Nat)
  BY NatLessThanWellFounded
<1>3. PICK x \in below : \A y \in below : ~(<<y, x>> \in Less)
  <2> HIDE DEF below, Less
  <2> QED BY <1>1, <1>2, WFMin
<1>4. \A y \in below : x <= y
  <2>1. \A y \in below : y < x => <<y, x>> \in Less
    BY <1>1 DEF OpToRel
  <2>2. ASSUME NEW y \in below
        PROVE  x <= y
    <3>1. ~(<<y, x>> \in Less)
      BY <1>3, Zenon
    <3>2. ~(y < x)
      BY <2>1, <3>1, Zenon
    <3>3. x \in Nat /\ y \in Nat
      BY <1>1
    <3> QED BY <3>2, <3>3
  <2> QED BY <2>2
<1>5. PICK i \in found : x = n - i
  BY <1>3
<1>6. \A j \in found : j <= i
  <2> SUFFICES ASSUME NEW j \in found PROVE j <= i
    OBVIOUS
  <2>1. n - j \in below
    OBVIOUS
  <2>2. x <= n - j
    BY <1>4, <2>1
  <2> QED BY <1>0, <1>5, <2>2
<1> QED BY <1>6 DEF LastOf

CandidateTyped(c) ==
    /\ {c.vendor_interface, c.hid_interface} \subseteq Interfaces \cup {NoInterface}
    /\ c = NoCandidate \/ c.vendor_interface \in Interfaces

\* The descriptors of a configuration carry numbers of interfaces.
LEMMA Numbered ==
    ASSUME NEW c \in Configs
    PROVE  /\ Len(c) \in Nat /\ DOMAIN c = 1..Len(c)
           /\ \A i \in DOMAIN c : c[i].number \in Interfaces
<1> DEFINE D == [number : Interfaces, class : {"vendor", "hid", "other"},
                 endpoints : SUBSET EndpointKinds]
<1>1. \A d \in D : d.number \in Interfaces
  OBVIOUS
<1>2. c \in Seq(D)
  BY UsbHandleAssumption
<1> HIDE DEF D
<1>3. /\ Len(c) \in Nat /\ DOMAIN c = 1..Len(c)
      /\ \A i \in 1..Len(c) : c[i] \in D
  BY <1>2
<1> QED BY <1>1, <1>3

\* What enumeration finds are interfaces of the panel.
LEMMA FoundTyped ==
    ASSUME config \in Configs
    PROVE  CandidateTyped(FindFipEndpoints)
<1>1. /\ Len(config) \in Nat /\ DOMAIN config = 1..Len(config)
      /\ \A i \in DOMAIN config : config[i].number \in Interfaces
  BY Numbered
<1>2. ASSUME NEW found \in SUBSET DOMAIN config
      PROVE  /\ NumberOf(found) \in Interfaces \cup {NoInterface}
             /\ found # {} => NumberOf(found) \in Interfaces
  <2>1. CASE found = {}
    BY <2>1 DEF NumberOf
  <2>2. CASE found # {}
    <3>1. LastOf(found) \in found
      BY <1>1, <2>2, Greatest
    <3> QED BY <1>1, <2>2, <3>1 DEF NumberOf
  <2> QED BY <2>1, <2>2
<1>3. \A class, kinds : Having(class, kinds) \subseteq DOMAIN config
  BY DEF Having
<1> DEFINE pairs == Having("vendor", {"bulk_out", "bulk_in"})
           reads == Having("hid", {"interrupt_in"})
<1>4. pairs \in SUBSET DOMAIN config /\ reads \in SUBSET DOMAIN config
  BY <1>3
<1>5. CASE pairs = {}
  BY <1>5 DEF FindFipEndpoints, CandidateTyped, NoCandidate
<1>6. CASE pairs # {}
  <2>1. /\ FindFipEndpoints.vendor_interface = NumberOf(pairs)
        /\ FindFipEndpoints.hid_interface = NumberOf(reads)
    BY <1>6 DEF FindFipEndpoints
  <2> HIDE DEF pairs, reads
  <2> QED BY <1>2, <1>4, <1>6, <2>1 DEF CandidateTyped
<1> QED BY <1>5, <1>6

BooksTyped ==
    /\ config \in Configs /\ CandidateTyped(candidate)
    /\ interface \in Interfaces \cup {NoInterface}
    /\ claimed \in Seq(Interfaces) /\ detached \in Seq(Interfaces)
    /\ before \in (0..2) \X (0..2)
    /\ driver \subseteq Interfaces /\ held \subseteq Interfaces
    /\ had \subseteq Interfaces /\ refused \subseteq Interfaces

FlagsTyped == hid_input \in BOOLEAN /\ detached_here \in BOOLEAN

TimesTyped ==
    /\ now \in 0..MaxNow /\ deadline \in 0..Timeout /\ wait \in 0..Timeout
    /\ calls \in 0..MaxCalls /\ (at \in {"ready", "call"} => calls > 0)

\* What is left of a sequence.
LEMMA Parts ==
    ASSUME NEW S, NEW s \in Seq(S)
    PROVE  /\ \A m \in 0..Len(s) : SubSeq(s, 1, m) \in Seq(S)
           /\ \A e \in S : Append(s, e) \in Seq(S)
           /\ s # <<>> => Front(s) \in Seq(S) /\ Last(s) \in S
<1>1. \A m \in 0..Len(s) : SubSeq(s, 1, m) \in Seq(S)
  OBVIOUS
<1>2. s # <<>> => Front(s) \in Seq(S) /\ Last(s) \in S
  BY DEF Front, Last
<1> QED BY <1>1, <1>2

BooksShort == Len(claimed) \in 0..2 /\ Len(detached) \in 0..2

\* The books are short at every stage.
LEMMA Shortened == HandleInv => BooksShort
<1> SUFFICES ASSUME HandleInv PROVE BooksShort
  OBVIOUS
<1>1. claimed \in {<<>>, <<Vendor>>, <<Vendor, Hid>>}
  BY DEF HandleInv, Claimed, Stages, Opening, Working, Closing
<1>2. detached \in {<<>>, <<Vendor>>, <<Hid>>, <<Vendor, Hid>>}
  BY DEF HandleInv, Detached
<1> QED BY <1>1, <1>2, Short DEF BooksShort

\* An attempt that fails changes the books as it may.
LEMMA FailureTyped ==
    ASSUME HandleInv, BooksTyped, at \in {"detach", "claim", "restore"}, ClaimFailed,
           UNCHANGED <<config, candidate, had>>, driver' \subseteq Interfaces,
           refused' \subseteq Interfaces
    PROVE  BooksTyped'
<1>1. CASE UNCHANGED <<interface, before, claimed, detached, held>>
  BY <1>1 DEF BooksTyped
<1>2. CASE Rollback /\ interface # candidate.vendor_interface
  <2>1. claimed = <<Vendor>> /\ before = <<1, Len(detached)>>
    BY <1>2 DEF HandleInv, Claimed, First, Vendor, Opening
  <2>2. Len(claimed) = 1 /\ Len(detached) \in Nat /\ before[1] = 1 /\ before[2] = Len(detached)
    BY <2>1, Short DEF BooksTyped
  <2>3. claimed' \in Seq(Interfaces) /\ detached' \in Seq(Interfaces)
    BY <1>2, <2>2, Parts DEF Rollback, BooksTyped
  <2>4. held' \subseteq Interfaces /\ UNCHANGED <<interface, before>>
    BY <1>2 DEF ClaimFailed, Rollback, Opened, BooksTyped
  <2> QED BY <2>3, <2>4 DEF BooksTyped
<1> QED BY <1>1, <1>2 DEF ClaimFailed

\* Every step keeps the books, and the kernel's, to interfaces of the panel.
LEMMA BooksStep ==
    ASSUME HandleInv, BooksShort', BooksTyped, [Next]_vars
    PROVE  BooksTyped'
<1> USE DEF Opening
<1>1. CASE UNCHANGED <<interface, config, candidate, claimed, detached, before, device>>
  BY <1>1 DEF BooksTyped, device
<1>2. at # "idle" => Vendor \in Interfaces
  BY DEF HandleInv, BooksTyped, CandidateTyped, Vendor
<1>3. at \in Opening => interface \in Interfaces
  <2>1. at \in Opening => interface = Vendor \/ (interface = Hid /\ Hid # NoInterface)
    BY DEF HandleInv, Claimed, First, Second
  <2> QED BY <1>2, <2>1 DEF BooksTyped, CandidateTyped, Hid
<1>4. ASSUME NEW i \in Interfaces, Attach(i)
      PROVE  driver' \subseteq Interfaces /\ refused' \subseteq Interfaces
  BY <1>4 DEF Attach, BooksTyped
<1>5. CASE Enumerate
  <2>1. CandidateTyped(NoCandidate)
    BY DEF CandidateTyped, NoCandidate
  <2>2. CandidateTyped(FindFipEndpoints)
    BY FoundTyped DEF BooksTyped
  <2>3. CandidateTyped(candidate')
    BY <1>5, <2>1, <2>2, Zenon DEF Enumerate
  <2> QED BY <1>5, <2>3 DEF Enumerate, BooksTyped, CandidateTyped, device
<1>6. CASE Open
  <2>1. interface' \in Interfaces \cup {NoInterface}
    BY <1>6 DEF Open, BooksTyped, CandidateTyped
  <2> QED BY <1>6, <2>1 DEF Open, BooksTyped
<1>7. CASE Query \/ Transceive \/ Issue \/ CallReturns \/ CallFails \/ Close \/ Released
  BY <1>1, <1>7 DEF Query, Transceive, Issue, CallReturns, CallFails, Close, Released, books
<1>8. CASE Detach
  <2>1. CASE ClaimFailed /\ UNCHANGED driver
    BY <1>8, <2>1, FailureTyped DEF Detach, BooksTyped
  <2>2. CASE driver' = driver \ {interface}
                /\ UNCHANGED <<interface, claimed, detached, before, held>>
    BY <1>8, <2>2 DEF Detach, BooksTyped
  <2> QED BY <1>8, <2>1, <2>2 DEF Detach
<1>9. CASE Claim
  <2>1. interface \in Interfaces
    BY <1>3, <1>9 DEF Claim
  <2>2. claimed' \in Seq(Interfaces) /\ detached' \in Seq(Interfaces)
    BY <1>9, <2>1 DEF Claim, BooksTyped
  <2>3. Len(claimed') \in 0..2 /\ Len(detached') \in 0..2
    BY DEF BooksShort
  <2>4. interface' \in Interfaces \cup {NoInterface} /\ before' \in (0..2) \X (0..2)
    <3>1. \/ UNCHANGED <<interface, before>>
          \/ /\ interface' = candidate.hid_interface
             /\ before' = <<Len(claimed'), Len(detached')>>
      BY <1>9 DEF Claim, ClaimNext, Opened
    <3>2. interface' \in Interfaces \cup {NoInterface}
      BY <3>1 DEF BooksTyped, CandidateTyped
    <3>3. \A m, n \in 0..2 : <<m, n>> \in (0..2) \X (0..2)
      OBVIOUS
    <3>4. before' \in (0..2) \X (0..2)
      BY <2>3, <3>1, <3>3, Zenon DEF BooksTyped
    <3> QED BY <3>2, <3>4
  <2>5. /\ held' \subseteq Interfaces
        /\ UNCHANGED <<config, candidate, driver, had, refused>>
    BY <1>9, <2>1 DEF Claim, BooksTyped
  <2> QED BY <2>2, <2>4, <2>5 DEF BooksTyped
<1>10. CASE ClaimRefused
  <2>1. CASE ClaimFailed
    BY <1>10, <2>1, FailureTyped DEF ClaimRefused, BooksTyped
  <2>2. CASE UNCHANGED <<interface, claimed, detached, before, held>>
    BY <1>10, <2>2 DEF ClaimRefused, BooksTyped
  <2> QED BY <1>10, <2>1, <2>2 DEF ClaimRefused
<1>11. CASE Restore
  <2>1. interface \in Interfaces /\ Attach(interface)
    BY <1>3, <1>11 DEF Restore
  <2>2. driver' \subseteq Interfaces /\ refused' \subseteq Interfaces
    BY <1>4, <2>1
  <2> QED BY <1>11, <2>2, FailureTyped DEF Restore
<1>12. CASE Release
  <2>1. claimed' \in Seq(Interfaces) /\ Last(claimed) \in Interfaces
    BY <1>12, Parts DEF Release, BooksTyped
  <2> QED BY <1>12, <2>1 DEF Release, BooksTyped
<1>13. CASE AttachLast
  <2>1. detached' \in Seq(Interfaces) /\ Last(detached) \in Interfaces
    BY <1>13, Parts DEF AttachLast, BooksTyped
  <2>2. driver' \subseteq Interfaces /\ refused' \subseteq Interfaces
    BY <1>4, <1>13, <2>1 DEF AttachLast
  <2> QED BY <1>13, <2>1, <2>2 DEF AttachLast, BooksTyped
<1>14. CASE Closed
  BY <1>14 DEF Closed, BooksTyped
<1>15. CASE UNCHANGED vars
  BY <1>1, <1>15 DEF vars, books
<1> QED BY <1>5, <1>6, <1>7, <1>8, <1>9, <1>10, <1>11, <1>12, <1>13, <1>14, <1>15 DEF Next

\* The flags are Boolean.
LEMMA FlagsStep ==
    ASSUME FlagsTyped, [Next]_vars
    PROVE  FlagsTyped'
<1> USE DEF FlagsTyped
<1>1. CASE Enumerate \/ Open
  BY <1>1 DEF Enumerate, Open
<1>2. CASE Query
  <2>1. (interface \in driver) \in BOOLEAN
    OBVIOUS
  <2> QED BY <1>2, <2>1, Zenon DEF Query
<1>3. CASE Detach \/ Claim \/ ClaimRefused \/ Restore
  BY <1>3 DEF Detach, Claim, ClaimRefused, Restore, ClaimFailed
<1>4. CASE Transceive \/ Issue \/ CallReturns \/ CallFails \/ Close \/ Released
  BY <1>4 DEF Transceive, Issue, CallReturns, CallFails, Close, Released, books
<1>5. CASE Release \/ AttachLast \/ Closed
  BY <1>5 DEF Release, AttachLast, Closed
<1>6. CASE UNCHANGED vars
  BY <1>6 DEF vars, books
<1> QED BY <1>1, <1>2, <1>3, <1>4, <1>5, <1>6 DEF Next

\* The clock, the timeout and the count of transfers stay within bounds.
LEMMA TimesStep ==
    ASSUME TimesTyped, [Next]_vars
    PROVE  TimesTyped'
<1> USE UsbHandleAssumption DEF TimesTyped, MaxNow
<1>1. ASSUME UNCHANGED timing, at' \notin {"ready", "call"}
      PROVE  TimesTyped'
  BY <1>1 DEF timing
<1>2. CASE Enumerate \/ Release \/ AttachLast \/ UNCHANGED vars
  BY <1>2 DEF Enumerate, Release, AttachLast, vars, timing
<1>3. CASE Open \/ Query \/ CallFails \/ Close \/ Released \/ Closed
  BY <1>1, <1>3 DEF Open, Query, CallFails, Close, Released, Closed
<1>4. CASE Detach \/ Claim \/ ClaimRefused \/ Restore
  BY <1>1, <1>4 DEF Detach, Claim, ClaimNext, ClaimRefused, Restore, ClaimFailed, Opened
<1>5. CASE Transceive
  BY <1>5 DEF Transceive
<1>6. CASE Issue
  <2>1. RemainingTimeout \in 0..Timeout
    <3>1. CASE now <= deadline
      <4>1. deadline - now \in Nat /\ deadline - now <= Timeout
        BY <3>1
      <4>2. RemainingTimeout = (deadline - now) \div TicksPerMilli
        BY <3>1 DEF RemainingTimeout
      <4>3. \A x \in Nat, t \in Nat \ {0} : x \div t \in Nat /\ x \div t <= x
        OBVIOUS
      <4> DEFINE rest == deadline - now
      <4>4. rest \div TicksPerMilli \in Nat /\ rest \div TicksPerMilli <= rest
        BY <4>1, <4>3
      <4> QED BY <4>1, <4>2, <4>4
    <3>2. CASE ~(now <= deadline)
      BY <3>2 DEF RemainingTimeout
    <3> QED BY <3>1, <3>2
  <2>2. /\ wait' = RemainingTimeout /\ at = "ready" /\ UNCHANGED <<now, deadline, calls>>
    BY <1>6 DEF Issue
  <2> QED BY <2>1, <2>2
<1>7. CASE CallReturns
  <2>1. /\ at = "call" /\ now' \in now..MaxNow /\ calls' = calls - 1
        /\ at' = IF calls = 1 THEN "open" ELSE "ready"
        /\ UNCHANGED <<deadline, wait>>
    BY <1>7 DEF CallReturns
  <2> QED BY <2>1
<1> QED BY <1>2, <1>3, <1>4, <1>5, <1>6, <1>7 DEF Next

\* The handle's books hold interfaces of the panel, at most two of them, and the clock
\* stays within the timeout and the lateness of one call.
THEOREM TypeCorrect == Spec => []TypeOK
<1> DEFINE Typed == BooksTyped /\ FlagsTyped /\ TimesTyped
<1>1. Init => Typed
  <2> SUFFICES ASSUME Init PROVE Typed
    OBVIOUS
  <2>1. {config[i].number : i \in DOMAIN config} \subseteq Interfaces
    BY Numbered DEF Init
  <2>2. BooksTyped
    BY <2>1 DEF Init, BooksTyped, CandidateTyped, NoCandidate
  <2>3. FlagsTyped
    BY DEF Init, FlagsTyped
  <2>4. TimesTyped
    <3>1. Timeout \in Nat /\ MaxLate \in Nat /\ MaxCalls \in Nat
      BY UsbHandleAssumption
    <3> QED BY <3>1 DEF Init, TimesTyped, MaxNow
  <2> QED BY <2>2, <2>3, <2>4
<1>2. HandleInv /\ BooksShort' /\ Typed /\ [Next]_vars => Typed'
  BY BooksStep, FlagsStep, TimesStep
<1>3. HandleInv /\ Typed => TypeOK
  <2> SUFFICES ASSUME HandleInv, Typed PROVE TypeOK
    OBVIOUS
  <2>1. Len(claimed) <= 2 /\ Len(detached) <= 2
    <3>1. Len(claimed) \in 0..2 /\ Len(detached) \in 0..2
      BY Shortened, Zenon DEF BooksShort
    <3>2. \A n \in 0..2 : n <= 2
      OBVIOUS
    <3> QED BY <3>1, <3>2, Zenon
  <2>2. at \in {"idle"} \cup Opening \cup Working \cup Closing
    BY DEF HandleInv, Stages
  <2>3. FlagsTyped /\ TimesTyped /\ BooksTyped
    OBVIOUS
  <2>4. hid_input \in BOOLEAN /\ detached_here \in BOOLEAN
    BY <2>3 DEF FlagsTyped
  <2>5. now \in 0..MaxNow /\ deadline \in 0..Timeout /\ wait \in 0..Timeout /\ calls \in 0..MaxCalls
    BY <2>3 DEF TimesTyped
  <2> HIDE DEF Typed
  <2> QED BY <2>1, <2>2, <2>3, <2>4, <2>5, Zenon DEF BooksTyped, TypeOK, CandidateTyped
<1> HIDE DEF Typed
<1> QED BY <1>1, <1>2, <1>3, HandleHolds, Shortened, PTL DEF Spec

=============================================================================
