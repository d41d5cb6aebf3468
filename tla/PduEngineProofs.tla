-------------------------- MODULE PduEngineProofs --------------------------
(***************************************************************************)
(* The request engine never calls a request back twice or after it was     *)
(* cancelled, never touches a freed PDU, gives no message id twice,        *)
(* answers the requests of a compound in their order, implements module    *)
(* Requests and spends no credit it was not granted, for any number of     *)
(* PDUs, timeouts, credits, compounds and replies, as long as the          *)
(* application takes none of the liberties.                                *)
(***************************************************************************)
EXTENDS PduEngine, SeqLemmas, FiniteSetTheorems

-----------------------------------------------------------------------------
(* Facts about chains. *)

(* Chains and queues are sequences of PDUs; a non-empty chain holds its    *)
(* head, and no head of another chain.                                     *)
LEMMA ChainFacts ==
    ASSUME TypeOK, ChainsSound
    PROVE  /\ \A h \in Pdus : /\ chain[h] \in Seq(Pdus)
                              /\ Range(chain[h]) \subseteq Pdus
                              /\ chain[h] = <<>> <=> Range(chain[h]) = {}
                              /\ Len(chain[h]) \in Nat
                              /\ DOMAIN chain[h] = 1..Len(chain[h])
                              /\ chain[h] # <<>> => /\ h \in Range(chain[h])
                                                    /\ h \in live
                                                    /\ 1 <= Len(chain[h])
           /\ \A h, p \in Pdus : p \in Range(chain[h]) /\ chain[p] # <<>>
                                     => p = h
           /\ Range(outqueue) \subseteq Pdus
           /\ Range(waitqueue) \subseteq Pdus
<1>1. \A h \in Pdus : chain[h] \in Seq(Pdus)
  BY DEF TypeOK
<1>2. \A h \in Pdus : /\ Range(chain[h]) \subseteq Pdus
                      /\ chain[h] = <<>> <=> Range(chain[h]) = {}
                      /\ Len(chain[h]) \in Nat
                      /\ DOMAIN chain[h] = 1..Len(chain[h])
                      /\ chain[h] # <<>> => 1 <= Len(chain[h])
                      /\ \A x : x \in Range(chain[h])
                                <=> \E i \in 1..Len(chain[h]) : chain[h][i] = x
  <2> TAKE h \in Pdus
  <2>1. chain[h] \in Seq(Pdus)
    BY <1>1
  <2> QED BY <2>1, SeqElements
<1>3. ASSUME NEW h \in Pdus, chain[h] # <<>>
      PROVE  h \in Range(chain[h]) /\ h \in live
  <2>1. chain[h][1] = h /\ 1 \in 1..Len(chain[h])
    BY <1>2, <1>3 DEF ChainsSound
  <2>2. h \in Range(chain[h])
    BY <1>2, <2>1
  <2> QED BY <2>2 DEF ChainsSound
<1>4. ASSUME NEW h \in Pdus, NEW p \in Pdus,
             p \in Range(chain[h]), chain[p] # <<>>, p # h
      PROVE  FALSE
  BY <1>3, <1>4 DEF ChainsSound
<1>5. Range(outqueue) \subseteq Pdus /\ Range(waitqueue) \subseteq Pdus
  BY SeqElements DEF TypeOK
<1> QED BY <1>1, <1>2, <1>3, <1>4, <1>5

(* What smb2_free_pdu(p) does to the chains and the queues. *)
LEMMA FreeFacts ==
    ASSUME TypeOK, ChainsSound, IsInjective(outqueue), IsInjective(waitqueue),
           NEW p \in Pdus, FreePdu(p)
    PROVE  /\ live' \subseteq Pdus /\ freed' \subseteq Pdus
           /\ chain' \in [Pdus -> Seq(Pdus)]
           /\ chain'[p] = <<>> /\ Range(chain'[p]) = {}
           /\ \A h \in Pdus \ {p} : chain'[h] = chain[h]
           /\ outqueue' \in Seq(Pdus) /\ waitqueue' \in Seq(Pdus)
           /\ IsInjective(outqueue') /\ IsInjective(waitqueue')
           /\ Range(outqueue') = Range(outqueue) \ {p}
           /\ Range(waitqueue') = Range(waitqueue) \ {p}
           /\ partial' \in BOOLEAN /\ desync' \in BOOLEAN
           /\ freed \subseteq freed'
           /\ ChainsSound'
<1>1. Range(chain[p]) \subseteq Pdus
  BY ChainFacts
<1>2. live' \subseteq Pdus /\ freed' \subseteq Pdus /\ freed \subseteq freed'
  BY <1>1 DEF FreePdu, TypeOK
<1>3. <<>> \in Seq(Pdus) /\ Range(<<>>) = {} /\ IsInjective(<<>>)
  BY SmallSeq
<1>4. /\ chain' \in [Pdus -> Seq(Pdus)]
      /\ chain'[p] = <<>>
      /\ \A h \in Pdus \ {p} : chain'[h] = chain[h]
  BY <1>3 DEF FreePdu, TypeOK
<1>5. /\ outqueue' \in Seq(Pdus) /\ IsInjective(outqueue')
      /\ Range(outqueue') = Range(outqueue) \ {p}
  <2>1. outqueue' = RemoveFirst(outqueue, p)
    BY DEF FreePdu
  <2>2. outqueue \in Seq(Pdus)
    BY DEF TypeOK
  <2>3. /\ RemoveFirst(outqueue, p) \in Seq(Pdus)
        /\ IsInjective(RemoveFirst(outqueue, p))
        /\ Range(RemoveFirst(outqueue, p)) = Range(outqueue) \ {p}
    BY <2>2, RemoveFirstSeq
  <2> QED BY <2>1, <2>3
<1>6. /\ waitqueue' \in Seq(Pdus) /\ IsInjective(waitqueue')
      /\ Range(waitqueue') = Range(waitqueue) \ {p}
  <2>1. waitqueue' = RemoveFirst(waitqueue, p)
    BY DEF FreePdu
  <2>2. waitqueue \in Seq(Pdus)
    BY DEF TypeOK
  <2>3. /\ RemoveFirst(waitqueue, p) \in Seq(Pdus)
        /\ IsInjective(RemoveFirst(waitqueue, p))
        /\ Range(RemoveFirst(waitqueue, p)) = Range(waitqueue) \ {p}
    BY <2>2, RemoveFirstSeq
  <2> QED BY <2>1, <2>3
<1>7. partial' \in BOOLEAN /\ desync' \in BOOLEAN
  BY Zenon DEF FreePdu
<1>8. ChainsSound'
  <2>1. live' \cap freed' = {}
    BY DEF FreePdu, ChainsSound
  <2>2. ASSUME NEW h \in Pdus
        PROVE  /\ IsInjective(chain'[h])
               /\ Range(chain'[h]) \subseteq live'
               /\ chain'[h] # <<>> => chain'[h][1] = h
    <3>1. CASE h = p
      BY <1>3, <1>4, <3>1
    <3>2. CASE h # p
      <4>1. chain'[h] = chain[h] /\ Range(chain[h]) \cap Range(chain[p]) = {}
        BY <1>4, <3>2 DEF ChainsSound
      <4> QED BY <4>1 DEF ChainsSound, FreePdu
    <3> QED BY <3>1, <3>2
  <2>3. ASSUME NEW h \in Pdus, NEW g \in Pdus, h # g
        PROVE  Range(chain'[h]) \cap Range(chain'[g]) = {}
    BY <1>3, <1>4, <2>3 DEF ChainsSound
  <2> QED BY <2>1, <2>2, <2>3 DEF ChainsSound
<1> QED BY <1>2, <1>3, <1>4, <1>5, <1>6, <1>7, <1>8

(* Freeing a PDU leaves the other links sound. *)
LEMMA FreeLinks ==
    ASSUME IInv, NEW p \in Pdus, FreePdu(p),
           p # pdu \/ pdu' = NoPdu \/ p \in cancelled',
           pdu' = pdu \/ pdu' = NoPdu, cancelled \subseteq cancelled',
           calls' \in [Pdus -> Seq(Statuses)],
           \A x \in Pdus \ {p} : calls'[x] = calls[x],
           mid' = mid, ctx' = ctx
    PROVE  LinksSound'
<1>1. /\ TypeOK /\ ChainsSound /\ LinksSound
      /\ IsInjective(outqueue) /\ IsInjective(waitqueue)
  BY DEF IInv, LinksSound
<1>2. /\ \A h \in Pdus \ {p} : chain'[h] = chain[h]
      /\ IsInjective(outqueue') /\ IsInjective(waitqueue')
      /\ Range(outqueue') = Range(outqueue) \ {p}
      /\ Range(waitqueue') = Range(waitqueue) \ {p}
  BY <1>1, FreeFacts
<1>3. Range(outqueue) \subseteq Pdus /\ Range(waitqueue) \subseteq Pdus
  BY <1>1, ChainFacts
<1>4. ASSUME NEW h \in Pdus \ {p}, Awaits(h)
      PROVE  Awaits(h)'
  BY <1>2, <1>4 DEF Awaits
<1>5. \A h \in Range(outqueue') : Awaits(h)'
  BY <1>1, <1>2, <1>3, <1>4 DEF LinksSound
<1>6. \A w \in Range(waitqueue') : Awaits(w)' /\ chain'[w] = <<w>>
  BY <1>1, <1>2, <1>3, <1>4 DEF LinksSound
<1>7. ASSUME pdu' \in Pdus \ cancelled'
      PROVE  /\ Awaits(pdu)' /\ chain'[pdu'] = <<pdu'>>
             /\ pdu' \notin Range(outqueue')
             /\ pdu' \in Range(waitqueue') => ctx' = "failed"
  <2>1. pdu' = pdu /\ pdu \in Pdus \ {p} /\ Awaits(pdu)
    BY <1>1, <1>7, EngineAssumption DEF LinksSound
  <2>2. Awaits(pdu)'
    BY <2>1, <1>2 DEF Awaits
  <2> QED BY <1>1, <1>2, <1>7, <2>1, <2>2 DEF LinksSound
<1>8. Range(outqueue') \cap Range(waitqueue') = {}
  BY <1>1, <1>2 DEF LinksSound
<1> QED BY <1>2, <1>5, <1>6, <1>7, <1>8 DEF LinksSound

(* Freeing p, after a callback or without one, leaves the callbacks sound. *)
LEMMA FreeCalls ==
    ASSUME IInv, NEW p \in Pdus, FreePdu(p), mid' = mid,
           calls' \in [Pdus -> Seq(Statuses)],
           \A x \in Pdus \ {p} : calls'[x] = calls[x],
           Len(calls'[p]) <= 1,
           mid[p] = NoMid => calls'[p] = <<>>,
           chain[p] # <<>> \/ calls'[p] = calls[p],
           \A x \in cancelled' : x \in freed' /\ calls'[x] = <<>>
    PROVE  CallsSound'
<1>1. /\ TypeOK /\ ChainsSound /\ CallsSound
      /\ IsInjective(outqueue) /\ IsInjective(waitqueue)
  BY DEF IInv, LinksSound
<1>2. /\ \A h \in Pdus \ {p} : chain'[h] = chain[h]
      /\ Range(chain'[p]) = {}
  BY <1>1, FreeFacts
<1>3. \A x \in Pdus : /\ Len(calls'[x]) <= 1
                      /\ mid'[x] = NoMid => calls'[x] = <<>>
                      /\ x \in cancelled' => x \in freed' /\ calls'[x] = <<>>
  BY <1>1 DEF CallsSound
<1>4. ASSUME NEW h \in Pdus, NEW x \in Range(chain'[h])
      PROVE  /\ mid'[x] = NoMid <=> mid'[h] = NoMid
             /\ x # h => calls'[x] = <<>>
  <2>1. h # p /\ x \in Range(chain[h]) /\ x \in Pdus
    BY <1>1, <1>2, ChainFacts
  <2>2. /\ mid[x] = NoMid <=> mid[h] = NoMid
        /\ x # h => calls[x] = <<>>
    BY <1>1, <2>1 DEF CallsSound
  <2>3. x = p => chain[p] = <<>>
    BY <1>1, <2>1, ChainFacts
  <2> QED BY <2>1, <2>2, <2>3
<1> QED BY <1>3, <1>4 DEF CallsSound

(* A PDU the application has cancelled is on no queue. *)
LEMMA CancelledGone ==
    ASSUME IInv
    PROVE  \A p \in cancelled : /\ p \in Pdus /\ p \in freed /\ p \notin live
                                /\ chain[p] = <<>> /\ calls[p] = <<>>
                                /\ p \notin Range(outqueue) /\ p \notin Range(waitqueue)
<1> SUFFICES ASSUME NEW p \in cancelled
             PROVE  /\ p \in Pdus /\ p \in freed /\ p \notin live
                    /\ chain[p] = <<>> /\ calls[p] = <<>>
                    /\ p \notin Range(outqueue) /\ p \notin Range(waitqueue)
  OBVIOUS
<1>1. p \in Pdus /\ p \in freed /\ calls[p] = <<>> /\ p \notin live
  BY DEF IInv, TypeOK, CallsSound, ChainsSound
<1>2. chain[p] = <<>>
  BY <1>1, ChainFacts DEF IInv
<1> QED BY <1>1, <1>2 DEF IInv, LinksSound, Awaits

(* A step that touches no freed memory, in a process that did not either,  *)
(* keeps MemorySafe.                                                       *)
LEMMA NothingTouched ==
    ASSUME faults = {}, faults' = faults
    PROVE  MemorySafe'
BY DEF MemorySafe

(* A step that does nothing but touch a cancelled PDU keeps IInv. *)
LEMMA FaultIInv ==
    ASSUME IInv, faults = {}, NEW p \in cancelled,
           faults' = faults \cup {<<"use_after_free", p>>},
           UNCHANGED <<pduVars, hdrVars, queueVars, recvVars, ctxVars, sweep, now,
                       peerVars, desync, calls, cancelled>>
    PROVE  IInv'
<1>1. p \in Pdus /\ faults' = {<<"use_after_free", p>>}
  BY DEF IInv, TypeOK
<1>5. faults' \subseteq {"use_after_free", "double_free"} \X Pdus
  BY <1>1
<1>2. TypeOK'
  BY <1>5 DEF IInv, TypeOK, pduVars, hdrVars, queueVars, recvVars, ctxVars, peerVars
<1>3. ChainsSound' /\ CallsSound' /\ LinksSound' /\ RecvSound' /\ SweepSound'
  BY DEF IInv, ChainsSound, CallsSound, LinksSound, Awaits, RecvSound, SweepSound,
     pduVars, hdrVars, queueVars, recvVars, ctxVars
<1>4. MemorySafe'
  BY <1>1 DEF MemorySafe
<1> QED BY <1>2, <1>3, <1>4 DEF IInv

-----------------------------------------------------------------------------
(* The invariant holds initially. *)
LEMMA InitIInv == Init => IInv
<1> SUFFICES ASSUME Init PROVE IInv
  OBVIOUS
<1> USE EngineAssumption
<1>1. \A p \in Pdus : chain[p] = <<>> /\ calls[p] = <<>> /\ mid[p] = NoMid
  BY DEF Init
<1>2. /\ Range(<<>>) = {} /\ IsInjective(<<>>) /\ Len(<<>>) = 0
      /\ <<>> \in Seq(Pdus) /\ <<>> \in Seq(Statuses) /\ <<>> \in Seq(Replies(Int))
  BY SmallSeq, EmptySeq
<1>3. TypeOK
  <2>1. /\ partial \in BOOLEAN /\ desync \in BOOLEAN
        /\ sweep \in [phase : {"idle", "out", "wait"}, next : Pdus \cup {NoPdu},
                      cb : BOOLEAN]
    BY DEF Init
  <2>2. mid \in [Pdus -> Int]
    BY DEF Init, NoMid
  <2>3. chain \in [Pdus -> Seq(Pdus)] /\ calls \in [Pdus -> Seq(Statuses)]
    BY <1>2 DEF Init
  <2> QED BY <1>2, <2>1, <2>2, <2>3 DEF Init, TypeOK
<1>4. ChainsSound /\ CallsSound
  BY <1>1, <1>2 DEF Init, ChainsSound, CallsSound
<1>5. LinksSound /\ RecvSound /\ SweepSound /\ MemorySafe
  BY <1>2 DEF Init, LinksSound, RecvSound, SweepSound, MemorySafe
<1> QED BY <1>3, <1>4, <1>5 DEF IInv

-----------------------------------------------------------------------------
(* Allocation and compounding. *)

(* Allocating a PDU keeps IInv. *)
LEMMA AllocateIInv ==
    ASSUME IInv, NEW p \in Pdus, NEW c \in Charges, AllocatePdu(p, c)
    PROVE  IInv'
<1>1. TypeOK /\ ChainsSound /\ CallsSound /\ LinksSound
  BY DEF IInv
<1>2. /\ p \notin live /\ p \notin freed
      /\ live' = live \cup {p} /\ chain' = [chain EXCEPT ![p] = <<p>>]
      /\ UNCHANGED <<freed, mid, prevMid, queueVars, recvVars, ctxVars, sweep,
                     now, peerVars, desync, histVars>>
  BY DEF AllocatePdu
<1>3. /\ <<p>> \in Seq(Pdus) /\ Range(<<p>>) = {p} /\ IsInjective(<<p>>)
      /\ <<p>>[1] = p
  BY SmallSeq
<1>4. chain'[p] = <<p>> /\ \A h \in Pdus \ {p} : chain'[h] = chain[h]
  BY <1>1, <1>2 DEF TypeOK
<1>5. chain[p] = <<>> /\ \A h \in Pdus : p \notin Range(chain[h])
  BY <1>1, <1>2, ChainFacts DEF ChainsSound
<1>6. TypeOK'
  <2>1. HeaderCharge(p, c) \in Nat
    BY EngineAssumption DEF HeaderCharge
  <2> DEFINE k == HeaderCharge(p, c)
             d == IF Timeout = 0 THEN 0 ELSE now + Timeout
  <2>2. k \in Nat /\ d \in Nat
    BY <1>1, <2>1, EngineAssumption DEF TypeOK
  <2>3. charge' = [charge EXCEPT ![p] = k] /\ deadline' = [deadline EXCEPT ![p] = d]
    BY DEF AllocatePdu
  <2> HIDE DEF k, d
  <2>4. charge' \in [Pdus -> Nat] /\ deadline' \in [Pdus -> Nat]
    BY <1>1, <2>2, <2>3 DEF TypeOK
  <2>5. live' \subseteq Pdus /\ chain' \in [Pdus -> Seq(Pdus)]
    BY <1>1, <1>2, <1>3 DEF TypeOK
  <2> QED BY <1>1, <1>2, <2>4, <2>5
          DEF TypeOK, queueVars, recvVars, ctxVars, peerVars, histVars
<1>7. ChainsSound'
  BY <1>1, <1>2, <1>3, <1>4, <1>5 DEF ChainsSound
<1>8. CallsSound'
  BY <1>1, <1>2, <1>3, <1>4 DEF CallsSound, histVars
<1>9. LinksSound'
  <2>1. /\ Range(outqueue) \subseteq Pdus \ {p}
        /\ Range(waitqueue) \subseteq Pdus \ {p}
        /\ pdu \in Pdus \ cancelled => pdu # p
    BY <1>1, <1>5, ChainFacts DEF LinksSound, Awaits
  <2> QED BY <1>1, <1>2, <1>4, <2>1
          DEF LinksSound, Awaits, queueVars, recvVars, ctxVars, histVars
<1>10. MemorySafe'
  BY NothingTouched DEF AllocatePdu, AppRuns, Active, histVars
<1> QED BY <1>2, <1>6, <1>7, <1>8, <1>9, <1>10
        DEF IInv, RecvSound, SweepSound, queueVars, recvVars,
            ctxVars, histVars

(* Compounding two chains keeps IInv. *)
LEMMA AddCompoundIInv ==
    ASSUME IInv, NEW h \in Pdus, NEW q \in Pdus, AddCompoundPdu(h, q)
    PROVE  IInv'
<1>1. TypeOK /\ ChainsSound /\ CallsSound /\ LinksSound
  BY DEF IInv
<1>2. /\ h # q /\ chain[h] # <<>> /\ chain[q] # <<>>
      /\ mid[h] = NoMid /\ mid[q] = NoMid
      /\ chain' = [chain EXCEPT ![h] = @ \o chain[q], ![q] = <<>>]
      /\ UNCHANGED <<live, freed, hdrVars, queueVars, recvVars, ctxVars, sweep,
                     now, peerVars, desync, histVars>>
  BY DEF AddCompoundPdu, Unqueued
<1>3. /\ chain[h] \in Seq(Pdus) /\ chain[q] \in Seq(Pdus)
      /\ IsInjective(chain[h]) /\ IsInjective(chain[q])
      /\ Range(chain[h]) \cap Range(chain[q]) = {}
      /\ <<>> \in Seq(Pdus) /\ Range(<<>>) = {} /\ IsInjective(<<>>)
  BY <1>1, <1>2, SmallSeq DEF TypeOK, ChainsSound
<1> DEFINE c == chain[h] \o chain[q]
<1>4. /\ c \in Seq(Pdus) /\ Range(c) = Range(chain[h]) \cup Range(chain[q])
      /\ IsInjective(c) /\ c # <<>> /\ c[1] = chain[h][1]
  <2>1. \A s, t \in Seq(Pdus) :
            (/\ IsInjective(s) /\ IsInjective(t) /\ Range(s) \cap Range(t) = {}
             /\ s # <<>>)
            => /\ s \o t \in Seq(Pdus) /\ Range(s \o t) = Range(s) \cup Range(t)
               /\ IsInjective(s \o t) /\ s \o t # <<>> /\ (s \o t)[1] = s[1]
    BY ConcatSeq
  <2> QED BY <1>2, <1>3, <2>1, Zenon
<1> HIDE DEF c
<1>5. /\ chain'[h] = c /\ chain'[q] = <<>>
      /\ \A g \in Pdus \ {h, q} : chain'[g] = chain[g]
      /\ chain' \in [Pdus -> Seq(Pdus)]
  BY <1>1, <1>2, <1>3, <1>4 DEF TypeOK, c
<1>6. TypeOK'
  BY <1>1, <1>2, <1>5
     DEF TypeOK, hdrVars, queueVars, recvVars, ctxVars, peerVars, histVars
<1>7. ChainsSound'
  <2>1. ASSUME NEW g \in Pdus
        PROVE  /\ IsInjective(chain'[g])
               /\ Range(chain'[g]) \subseteq live
               /\ chain'[g] # <<>> => chain'[g][1] = g
    BY <1>1, <1>2, <1>3, <1>4, <1>5 DEF ChainsSound
  <2>2. ASSUME NEW g \in Pdus, NEW k \in Pdus, g # k
        PROVE  Range(chain'[g]) \cap Range(chain'[k]) = {}
    BY <1>1, <1>3, <1>4, <1>5, <2>2 DEF ChainsSound
  <2> QED BY <1>1, <1>2, <2>1, <2>2 DEF ChainsSound
<1>8. CallsSound'
  <2>1. ASSUME NEW g \in Pdus, NEW p \in Range(chain'[g])
        PROVE  /\ mid[p] = NoMid <=> mid[g] = NoMid
               /\ p # g => calls[p] = <<>>
    BY <1>1, <1>2, <1>3, <1>4, <1>5 DEF CallsSound
  <2> QED BY <1>1, <1>2, <2>1 DEF CallsSound, hdrVars, histVars
<1>9. LinksSound'
  <2>1. /\ Range(outqueue) \subseteq Pdus \ {h, q}
        /\ Range(waitqueue) \subseteq Pdus \ {h, q}
        /\ pdu \in Pdus \ cancelled => pdu \notin {h, q}
    BY <1>1, <1>2, ChainFacts DEF LinksSound, Awaits
  <2> QED BY <1>1, <1>2, <1>5, <2>1 DEF LinksSound, Awaits, hdrVars,
             queueVars, recvVars, ctxVars, histVars
<1>10. MemorySafe'
  BY NothingTouched DEF AddCompoundPdu, AppRuns, Active, histVars
<1> QED BY <1>2, <1>6, <1>7, <1>8, <1>9, <1>10
        DEF IInv, RecvSound, SweepSound, queueVars, recvVars,
            ctxVars, histVars

-----------------------------------------------------------------------------
(* Writing. *)

(* The chain h gets message ids, or has them already. *)
Numbered(h) ==
    /\ chain[h] # <<>> /\ calls[h] = <<>>
    /\ h \notin Range(waitqueue) /\ h # pdu
    /\ mid' \in [Pdus -> Int]
    /\ \A p \in Range(chain[h]) : mid'[p] # NoMid
    /\ \A p \in Pdus \ Range(chain[h]) : mid'[p] = mid[p]

(* Giving h its message ids keeps the callbacks sound. *)
LEMMA NumberCalls ==
    ASSUME TypeOK, ChainsSound, CallsSound, NEW h \in Pdus, Numbered(h),
           freed' = freed, calls' = calls, cancelled' = cancelled,
           \A g \in Pdus : chain'[g] = chain[g] \/ chain'[g] = <<g>>
    PROVE  CallsSound'
<1>1. ASSUME NEW g \in Pdus, NEW p \in Range(chain[g])
      PROVE  /\ mid'[p] = NoMid <=> mid'[g] = NoMid
             /\ p # g => calls[p] = <<>>
  <2>1. /\ mid[p] = NoMid <=> mid[g] = NoMid
        /\ p # g => calls[p] = <<>>
    BY DEF CallsSound
  <2>2. p \in Pdus /\ g \in Range(chain[g])
    BY ChainFacts
  <2>3. CASE g = h
    BY <2>1, <2>2, <2>3 DEF Numbered
  <2>4. CASE g # h
    <3>1. p \notin Range(chain[h]) /\ g \notin Range(chain[h])
      BY <2>2, <2>4 DEF ChainsSound
    <3> QED BY <2>1, <2>2, <3>1 DEF Numbered
  <2> QED BY <2>3, <2>4
<1>2. ASSUME NEW g \in Pdus, NEW p \in Range(chain'[g])
      PROVE  /\ mid'[p] = NoMid <=> mid'[g] = NoMid
             /\ p # g => calls[p] = <<>>
  <2>1. CASE chain'[g] = chain[g]
    BY <1>1, <2>1
  <2>2. CASE chain'[g] = <<g>>
    <3>1. p = g
      BY <2>2, SmallSeq
    <3> QED BY <3>1
  <2> QED BY <2>1, <2>2
<1>3. \A p \in Pdus : /\ Len(calls[p]) <= 1
                      /\ mid'[p] = NoMid => calls[p] = <<>>
                      /\ p \in cancelled => p \in freed /\ calls[p] = <<>>
  BY DEF CallsSound, Numbered
<1> QED BY <1>2, <1>3 DEF CallsSound

(* Linking the whole chain h into outqueue. *)
LEMMA LinkOut ==
    ASSUME TypeOK, ChainsSound, CallsSound, LinksSound, NEW h \in Pdus,
           Numbered(h), IsInjective(outqueue'),
           Range(outqueue') \subseteq Range(outqueue) \cup {h},
           UNCHANGED <<chain, waitqueue, pdu, ctx, calls, cancelled>>
    PROVE  LinksSound'
<1>1. /\ Range(outqueue) \subseteq Pdus /\ Range(waitqueue) \subseteq Pdus
      /\ h \in Range(chain[h])
  BY ChainFacts DEF Numbered
<1>2. ASSUME NEW g \in Pdus, Awaits(g)
      PROVE  Awaits(g)'
  BY <1>2 DEF Awaits, Numbered
<1>3. Awaits(h)'
  BY <1>1 DEF Awaits, Numbered
<1>4. \A g \in Range(outqueue') : Awaits(g)'
  BY <1>1, <1>2, <1>3 DEF LinksSound
<1>5. \A w \in Range(waitqueue') : Awaits(w)' /\ chain'[w] = <<w>>
  BY <1>1, <1>2 DEF LinksSound
<1>6. ASSUME pdu' \in Pdus \ cancelled'
      PROVE  /\ Awaits(pdu)' /\ chain'[pdu'] = <<pdu'>>
             /\ pdu' \notin Range(outqueue')
             /\ pdu' \in Range(waitqueue') => ctx' = "failed"
  <2>1. pdu \in Pdus /\ Awaits(pdu)
    BY <1>6 DEF LinksSound
  <2>2. Awaits(pdu)'
    BY <2>1 DEF Awaits, Numbered
  <2> QED BY <1>6, <2>1, <2>2 DEF LinksSound, Numbered
<1>7. Range(outqueue') \cap Range(waitqueue') = {}
  BY DEF LinksSound, Numbered
<1> QED BY <1>4, <1>5, <1>6, <1>7 DEF LinksSound

(* Moving the PDUs of chain h, once written, to waitqueue. *)
LEMMA LinkWait ==
    ASSUME TypeOK, ChainsSound, CallsSound, LinksSound, NEW h \in Pdus,
           Numbered(h), IsInjective(outqueue'), outqueue' \in Seq(Pdus),
           Range(outqueue') \subseteq Range(outqueue) \ {h},
           waitqueue' = waitqueue \o chain[h],
           chain' = [p \in Pdus |-> IF p \in Range(chain[h]) THEN <<p>>
                                                            ELSE chain[p]],
           UNCHANGED <<live, freed, pdu, ctx, calls, cancelled>>
    PROVE  /\ chain' \in [Pdus -> Seq(Pdus)]
           /\ waitqueue' \in Seq(Pdus)
           /\ Range(waitqueue) \subseteq Range(waitqueue')
           /\ ChainsSound'
           /\ LinksSound'
<1>1. /\ Range(outqueue) \subseteq Pdus /\ Range(waitqueue) \subseteq Pdus
      /\ h \in Range(chain[h]) /\ Range(chain[h]) \subseteq Pdus
      /\ chain[h] \in Seq(Pdus) /\ IsInjective(chain[h])
      /\ waitqueue \in Seq(Pdus) /\ IsInjective(waitqueue)
  BY ChainFacts DEF Numbered, TypeOK, ChainsSound, LinksSound
<1>2. \A p \in Range(chain[h]) : p # h => chain[p] = <<>>
  BY <1>1, ChainFacts
<1>3. /\ \A p \in Range(chain[h]) : chain'[p] = <<p>>
      /\ \A p \in Pdus \ Range(chain[h]) : chain'[p] = chain[p]
  BY <1>1
<1>4. \A p \in Pdus : /\ <<p>> \in Seq(Pdus) /\ Range(<<p>>) = {p}
                      /\ IsInjective(<<p>>) /\ <<p>>[1] = p /\ <<p>> # <<>>
  BY SmallSeq
<1>5. chain' \in [Pdus -> Seq(Pdus)]
  BY <1>4 DEF TypeOK
<1>6. Range(chain[h]) \cap Range(waitqueue) = {}
  BY <1>1, <1>2 DEF LinksSound, Awaits, Numbered
<1>7. /\ waitqueue' \in Seq(Pdus) /\ IsInjective(waitqueue')
      /\ Range(waitqueue') = Range(waitqueue) \cup Range(chain[h])
  <2>1. \A s, t \in Seq(Pdus) :
            (IsInjective(s) /\ IsInjective(t) /\ Range(t) \cap Range(s) = {})
            => /\ s \o t \in Seq(Pdus) /\ IsInjective(s \o t)
               /\ Range(s \o t) = Range(s) \cup Range(t)
    BY ConcatSeq
  <2>2. /\ waitqueue \o chain[h] \in Seq(Pdus)
        /\ IsInjective(waitqueue \o chain[h])
        /\ Range(waitqueue \o chain[h]) = Range(waitqueue) \cup Range(chain[h])
    BY <1>1, <1>6, <2>1, Zenon
  <2> QED BY <2>2, Zenon
<1>8. ChainsSound'
  <2>1. ASSUME NEW g \in Pdus
        PROVE  /\ IsInjective(chain'[g])
               /\ Range(chain'[g]) \subseteq live
               /\ chain'[g] # <<>> => chain'[g][1] = g
    <3>1. CASE g \in Range(chain[h])
      BY <1>1, <1>3, <1>4, <3>1 DEF ChainsSound
    <3>2. CASE g \notin Range(chain[h])
      BY <1>3, <3>2 DEF ChainsSound
    <3> QED BY <3>1, <3>2
  <2>2. ASSUME NEW g \in Pdus, NEW k \in Pdus, g # k
        PROVE  Range(chain'[g]) \cap Range(chain'[k]) = {}
    <3>1. \A x \in Pdus \ Range(chain[h]) :
              Range(chain[x]) \cap Range(chain[h]) = {}
      BY <1>1 DEF ChainsSound
    <3>2. \A x \in Pdus : \/ x \in Range(chain[h]) /\ Range(chain'[x]) = {x}
                          \/ /\ x \notin Range(chain[h])
                             /\ Range(chain'[x]) = Range(chain[x])
      BY <1>3, <1>4
    <3>3. Range(chain[g]) \cap Range(chain[k]) = {}
      BY <2>2 DEF ChainsSound
    <3>4. CASE g \in Range(chain[h]) /\ k \in Range(chain[h])
      BY <2>2, <3>2, <3>4
    <3>5. CASE g \in Range(chain[h]) /\ k \notin Range(chain[h])
      BY <3>1, <3>2, <3>5
    <3>6. CASE g \notin Range(chain[h]) /\ k \in Range(chain[h])
      BY <3>1, <3>2, <3>6
    <3>7. CASE g \notin Range(chain[h]) /\ k \notin Range(chain[h])
      BY <3>2, <3>3, <3>7
    <3> QED BY <3>4, <3>5, <3>6, <3>7
  <2> QED BY <2>1, <2>2 DEF ChainsSound
<1>9. LinksSound'
  <2>1. \A p \in Range(chain[h]) : Awaits(p)'
    BY <1>1, <1>3, <1>4 DEF Awaits, Numbered, CallsSound
  <2>2. ASSUME NEW g \in Pdus \ Range(chain[h]), Awaits(g)
        PROVE  Awaits(g)'
    BY <1>3, <2>2 DEF Awaits, Numbered
  <2>3. \A g \in Range(outqueue) : g # h => g \notin Range(chain[h])
    BY <1>1, <1>2 DEF LinksSound, Awaits
  <2>4. \A g \in Range(outqueue') : Awaits(g)'
    BY <1>1, <2>2, <2>3 DEF LinksSound
  <2>5. \A w \in Range(waitqueue') : Awaits(w)' /\ chain'[w] = <<w>>
    BY <1>1, <1>3, <1>6, <1>7, <2>1, <2>2 DEF LinksSound
  <2>6. ASSUME pdu' \in Pdus \ cancelled'
        PROVE  /\ Awaits(pdu)' /\ chain'[pdu'] = <<pdu'>>
               /\ pdu' \notin Range(outqueue')
               /\ pdu' \in Range(waitqueue') => ctx' = "failed"
    <3>1. pdu \in Pdus /\ Awaits(pdu) /\ pdu \notin Range(chain[h])
      BY <1>1, <1>2, <2>6 DEF LinksSound, Awaits, Numbered
    <3>2. Awaits(pdu)'
      BY <1>3, <3>1 DEF Awaits, Numbered
    <3> QED BY <1>3, <1>7, <2>6, <3>1, <3>2 DEF LinksSound
  <2>7. Range(outqueue') \cap Range(waitqueue') = {}
    BY <1>7, <2>3 DEF LinksSound
  <2> QED BY <1>7, <2>4, <2>5, <2>6, <2>7 DEF LinksSound
<1> QED BY <1>5, <1>7, <1>8, <1>9

(* One round of smb2_write_to_socket for a chain h that has its ids. *)
LEMMA WriteFacts ==
    ASSUME IInv, NEW h \in Pdus, Numbered(h), NEW q \in Seq(Pdus),
           IsInjective(q), Range(q) \subseteq Range(outqueue) \ {h},
           h \in Range(outqueue) \/ outqueue = <<>>,
           WriteChain(h, q),
           UNCHANGED <<live, freed, pdu, ctx, calls, cancelled>>
    PROVE  /\ chain' \in [Pdus -> Seq(Pdus)]
           /\ outqueue' \in Seq(Pdus) /\ waitqueue' \in Seq(Pdus)
           /\ partial' \in BOOLEAN
           /\ credits' \in Nat /\ owed' \subseteq Int
           /\ Range(waitqueue) \subseteq Range(waitqueue')
           /\ ChainsSound' /\ CallsSound' /\ LinksSound'
<1>1. TypeOK /\ ChainsSound /\ CallsSound /\ LinksSound
  BY DEF IInv
<1>2. CASE /\ outqueue' = <<h>> \o q
           /\ partial' = TRUE
           /\ UNCHANGED <<chain, waitqueue, credits, peerVars>>
  <2>1. /\ <<h>> \in Seq(Pdus) /\ IsInjective(<<h>>) /\ Range(<<h>>) = {h}
        /\ Range(<<h>>) \cap Range(q) = {}
    BY SmallSeq
  <2>2. \A s, t \in Seq(Pdus) :
            (IsInjective(s) /\ IsInjective(t) /\ Range(s) \cap Range(t) = {})
            => /\ s \o t \in Seq(Pdus) /\ IsInjective(s \o t)
               /\ Range(s \o t) = Range(s) \cup Range(t)
    BY ConcatSeq
  <2>3. /\ <<h>> \o q \in Seq(Pdus) /\ IsInjective(<<h>> \o q)
        /\ Range(<<h>> \o q) = {h} \cup Range(q)
    BY <2>1, <2>2, Zenon
  <2>4. /\ outqueue' \in Seq(Pdus) /\ IsInjective(outqueue')
        /\ Range(outqueue') \subseteq Range(outqueue) \cup {h}
    <3>1. /\ outqueue' \in Seq(Pdus) /\ IsInjective(outqueue')
          /\ Range(outqueue') = {h} \cup Range(q)
      BY <1>2, <2>3, Zenon
    <3> QED BY <3>1
  <2>5. LinksSound'
    BY <1>1, <1>2, <2>4, LinkOut
  <2>6. CallsSound'
    BY <1>1, <1>2, NumberCalls
  <2>7. ChainsSound'
    BY <1>1, <1>2 DEF ChainsSound
  <2>8. partial' \in BOOLEAN
    BY <1>2
  <2> QED BY <1>1, <1>2, <2>4, <2>5, <2>6, <2>7, <2>8 DEF TypeOK, peerVars
<1>3. CASE /\ CreditCharge(h) \in 0..credits
           /\ outqueue' = q
           /\ partial' = FALSE
           /\ chain' = [p \in Pdus |-> IF p \in Range(chain[h]) THEN <<p>>
                                                               ELSE chain[p]]
           /\ waitqueue' = waitqueue \o chain[h]
           /\ credits' = credits - CreditCharge(h)
           /\ IF desync THEN UNCHANGED peerVars
              ELSE /\ owed' = owed \cup {mid'[p] : p \in Range(chain[h])}
                   /\ window' = window - ServerCharge(h)
  <2>1. /\ outqueue' \in Seq(Pdus) /\ IsInjective(outqueue')
        /\ Range(outqueue') \subseteq Range(outqueue) \ {h}
    BY <1>3
  <2>2. waitqueue' = waitqueue \o chain[h]
    BY <1>3
  <2>3. /\ chain' \in [Pdus -> Seq(Pdus)]
        /\ waitqueue' \in Seq(Pdus)
        /\ Range(waitqueue) \subseteq Range(waitqueue')
        /\ ChainsSound' /\ LinksSound'
    BY <1>1, <1>3, <2>1, <2>2, LinkWait
  <2>4. \A g \in Pdus : chain'[g] = chain[g] \/ chain'[g] = <<g>>
    BY <1>3
  <2>5. CallsSound'
    BY <1>1, <2>4, NumberCalls
  <2>6. credits' \in Nat
    <3>1. CreditCharge(h) \in 0..credits /\ credits' = credits - CreditCharge(h)
      BY <1>3, Zenon
    <3>2. \A k \in 0..credits : credits - k \in Nat
      BY <1>1 DEF TypeOK
    <3> QED BY <3>1, <3>2, Zenon
  <2>7. owed' \subseteq Int
    <3>1. Range(chain[h]) \subseteq Pdus
      BY <1>1, ChainFacts
    <3>2. owed \subseteq Int /\ mid' \in [Pdus -> Int]
      BY <1>1 DEF TypeOK, Numbered
    <3>3. CASE desync
      BY <1>3, <3>2, <3>3 DEF peerVars
    <3>4. CASE ~desync
      <4>1. owed' = owed \cup {mid'[p] : p \in Range(chain[h])}
        BY <1>3, <3>4, Zenon
      <4> QED BY <3>1, <3>2, <4>1
    <3> QED BY <3>3, <3>4
  <2>8. partial' \in BOOLEAN
    BY <1>3
  <2> QED BY <2>1, <2>3, <2>5, <2>6, <2>7, <2>8
<1> QED BY <1>2, <1>3 DEF WriteChain, MayWrite

(* Writing the head of outqueue keeps IInv. *)
LEMMA WriteToSocketIInv ==
    ASSUME IInv, WriteToSocket
    PROVE  IInv'
<1> DEFINE h == Head(outqueue)
           q == Tail(outqueue)
<1>1. TypeOK /\ ChainsSound /\ CallsSound /\ LinksSound
  BY DEF IInv
<1>2. /\ outqueue # <<>> /\ sweep.phase = "idle" /\ WriteChain(h, q)
      /\ UNCHANGED <<live, freed, hdrVars, recvVars, message_id, dialect, ctx,
                     sweep, now, desync, histVars>>
  BY DEF WriteToSocket, Idle
<1>3. /\ h \in Pdus /\ q \in Seq(Pdus) /\ h \in Range(outqueue)
      /\ IsInjective(q) /\ Range(q) = Range(outqueue) \ {h}
  BY <1>1, <1>2, TailSeq DEF TypeOK, LinksSound
<1> HIDE DEF h, q
<1>4. Numbered(h)
  <2>1. Awaits(h) /\ h \notin Range(waitqueue) /\ h # pdu
    BY <1>1, <1>3, CancelledGone DEF LinksSound
  <2>2. \A p \in Range(chain[h]) : mid[p] # NoMid
    BY <1>1, <1>3, <2>1 DEF CallsSound, Awaits
  <2> QED BY <1>1, <1>2, <2>1, <2>2 DEF Numbered, Awaits, hdrVars, TypeOK
<1>5. /\ chain' \in [Pdus -> Seq(Pdus)]
      /\ outqueue' \in Seq(Pdus) /\ waitqueue' \in Seq(Pdus)
      /\ partial' \in BOOLEAN
      /\ credits' \in Nat /\ owed' \subseteq Int
      /\ ChainsSound' /\ CallsSound' /\ LinksSound'
  <2>1. UNCHANGED <<live, freed, pdu, ctx, calls, cancelled>>
    BY <1>2 DEF recvVars, histVars
  <2> QED BY <1>2, <1>3, <1>4, <2>1, WriteFacts
<1>6. TypeOK'
  BY <1>1, <1>2, <1>5 DEF TypeOK, hdrVars, recvVars, histVars
<1>7. RecvSound' /\ SweepSound'
  BY <1>2 DEF IInv, RecvSound, SweepSound, recvVars, histVars
<1>8. MemorySafe'
  BY NothingTouched DEF WriteToSocket, Active, histVars
<1> QED BY <1>5, <1>6, <1>7, <1>8 DEF IInv

(* Queueing a chain, written at once or not, keeps IInv. *)
LEMMA QueueIInv ==
    ASSUME IInv, NEW h \in Pdus, QueuePdu(h)
    PROVE  IInv'
<1> DEFINE c == chain[h]
           Written == outqueue = <<>> /\ WriteChain(h, <<>>)
           Appended == /\ outqueue' = Append(outqueue, h)
                       /\ UNCHANGED <<chain, waitqueue, partial, credits,
                                      peerVars>>
<1>1. TypeOK /\ ChainsSound /\ CallsSound /\ LinksSound
  BY DEF IInv
<1>2. /\ chain[h] # <<>> /\ mid[h] = NoMid /\ (Appended \/ Written)
      /\ UNCHANGED <<live, freed, charge, deadline, recvVars, dialect, ctx,
                     sweep, now, desync, histVars>>
  BY DEF QueuePdu, Unqueued
<1>3. /\ c \in Seq(Pdus) /\ Len(c) \in Nat /\ 1 <= Len(c)
      /\ DOMAIN c = 1..Len(c) /\ Range(c) \subseteq Pdus /\ c[1] = h
      /\ h \in Range(c) /\ c[Len(c)] \in Pdus
  <2>1. /\ c \in Seq(Pdus) /\ Len(c) \in Nat /\ 1 <= Len(c)
        /\ DOMAIN c = 1..Len(c) /\ Range(c) \subseteq Pdus
        /\ h \in Range(c)
    BY <1>1, <1>2, ChainFacts
  <2>2. c[1] = h
    BY <1>1, <1>2 DEF ChainsSound
  <2> QED BY <2>1, <2>2, ElementOfSeq
<1>4. PICK ms \in [1..Len(c) -> 0..MaxMid] :
          /\ message_id' = ms[Len(c)] + MidStep(Last(c))
          /\ mid' = [p \in Pdus |-> IF p \in Range(c)
                                    THEN ms[Position(c, p)] ELSE mid[p]]
          /\ prevMid' = [p \in Pdus |-> IF p \in Range(c) /\ p # h
                                        THEN ms[Position(c, p) - 1]
                                        ELSE prevMid[p]]
  BY DEF QueuePdu
<1> HIDE DEF c
<1>5. \A p \in Range(c) : Position(c, p) \in 1..Len(c) /\ c[Position(c, p)] = p
  <2>1. \A p \in Range(c) : \E i \in DOMAIN c : c[i] = p
    BY DEF Range
  <2> QED BY <1>3, <2>1 DEF Position
<1>6. \A p \in Range(c) : p # h => Position(c, p) - 1 \in 1..Len(c)
  BY <1>3, <1>5
<1>7. /\ mid' \in [Pdus -> Int]
      /\ \A p \in Range(c) : mid'[p] # NoMid
      /\ \A p \in Pdus \ Range(c) : mid'[p] = mid[p]
  <2>1. \A i \in 1..Len(c) : ms[i] \in Int /\ ms[i] # NoMid
    BY <1>4, EngineAssumption DEF NoMid
  <2> QED BY <1>1, <1>3, <1>4, <1>5, <2>1 DEF TypeOK
<1>8. prevMid' \in [Pdus -> Nat]
  <2>1. \A i \in 1..Len(c) : ms[i] \in Nat
    BY <1>4, EngineAssumption
  <2> QED BY <1>1, <1>3, <1>4, <1>6, <2>1 DEF TypeOK
<1>9. message_id' \in Nat
  <2>1. MidStep(c[Len(c)]) \in Nat /\ Last(c) = c[Len(c)]
    BY <1>1, <1>3 DEF MidStep, TypeOK, Last
  <2>2. ms[Len(c)] \in Nat
    BY <1>3, <1>4, EngineAssumption
  <2> QED BY <1>4, <2>1, <2>2
<1>10. Numbered(h)
  BY <1>1, <1>2, <1>7, CancelledGone DEF Numbered, LinksSound, Awaits, CallsSound, c
<1>11. UNCHANGED <<live, freed, pdu, ctx, calls, cancelled>>
  BY <1>2 DEF recvVars, histVars
<1>12. /\ chain' \in [Pdus -> Seq(Pdus)]
       /\ outqueue' \in Seq(Pdus) /\ waitqueue' \in Seq(Pdus)
       /\ partial' \in BOOLEAN
       /\ credits' \in Nat /\ owed' \subseteq Int
       /\ ChainsSound' /\ CallsSound' /\ LinksSound'
       /\ Range(waitqueue) \subseteq Range(waitqueue')
       /\ outqueue = <<>> \/ Range(outqueue) \subseteq Range(outqueue')
  <2>1. CASE Appended
    <3>1. /\ outqueue \in Seq(Pdus) /\ IsInjective(outqueue)
          /\ h \notin Range(outqueue)
      BY <1>1, <1>2 DEF TypeOK, LinksSound, Awaits
    <3>2. Append(outqueue, h) = outqueue \o <<h>>
      BY <3>1, AppendIsConcat
    <3>3. /\ <<h>> \in Seq(Pdus) /\ IsInjective(<<h>>)
          /\ Range(<<h>>) = {h} /\ Range(outqueue) \cap Range(<<h>>) = {}
      BY <3>1, SmallSeq
    <3>4. \A s, t \in Seq(Pdus) :
              (IsInjective(s) /\ IsInjective(t) /\ Range(s) \cap Range(t) = {})
              => /\ s \o t \in Seq(Pdus) /\ IsInjective(s \o t)
                 /\ Range(s \o t) = Range(s) \cup Range(t)
      BY ConcatSeq
    <3>5. /\ outqueue' \in Seq(Pdus) /\ IsInjective(outqueue')
          /\ Range(outqueue') = Range(outqueue) \cup Range(<<h>>)
      BY <2>1, <3>1, <3>2, <3>3, <3>4, Zenon
    <3>6. Range(outqueue') = Range(outqueue) \cup {h}
      BY <3>3, <3>5
    <3>7. LinksSound'
      BY <1>1, <1>10, <1>11, <2>1, <3>5, <3>6, LinkOut
    <3>8. CallsSound'
      BY <1>1, <1>10, <1>11, <2>1, NumberCalls
    <3>9. ChainsSound'
      BY <1>1, <1>11, <2>1 DEF ChainsSound
    <3> QED BY <1>1, <2>1, <3>5, <3>6, <3>7, <3>8, <3>9 DEF TypeOK, peerVars
  <2>2. CASE Written
    <3>1. /\ <<>> \in Seq(Pdus) /\ IsInjective(<<>>)
          /\ Range(<<>>) \subseteq Range(outqueue) \ {h}
      BY SmallSeq
    <3> QED BY <1>10, <1>11, <2>2, <3>1, WriteFacts
  <2> QED BY <1>2, <2>1, <2>2
<1>13. TypeOK'
  BY <1>1, <1>2, <1>7, <1>8, <1>9, <1>12 DEF TypeOK, recvVars, histVars
<1>14. SweepSound'
  <2>1. SweepSound /\ sweep' = sweep
    BY <1>2 DEF IInv
  <2>2. Range(<<>>) = {}
    BY SmallSeq
  <2> QED BY <1>11, <1>12, <2>1, <2>2 DEF SweepSound
<1>15. RecvSound' /\ MemorySafe'
  <2>1. RecvSound'
    BY <1>2 DEF IInv, RecvSound, recvVars, histVars
  <2>2. MemorySafe'
    BY NothingTouched DEF QueuePdu, AppRuns, Active, histVars
  <2> QED BY <2>1, <2>2
<1> QED BY <1>12, <1>13, <1>14, <1>15 DEF IInv

-----------------------------------------------------------------------------
(* Freeing. *)

(* Cancelling keeps IInv, whatever else points to the PDU. *)
LEMMA CancelIInv ==
    ASSUME IInv, NEW p \in Pdus, Cancel(p)
    PROVE  IInv'
<1>1. /\ TypeOK /\ ChainsSound /\ CallsSound /\ LinksSound
      /\ RecvSound /\ SweepSound /\ MemorySafe
      /\ IsInjective(outqueue) /\ IsInjective(waitqueue)
  BY DEF IInv, LinksSound
<1>2. /\ chain[p] # <<>> /\ calls[p] = <<>> /\ faults = {}
      /\ FreePdu(p) /\ cancelled' = cancelled \cup Range(chain[p])
      /\ UNCHANGED <<hdrVars, recvVars, ctxVars, sweep, now, peerVars, calls,
                     faults>>
  BY DEF Cancel, AppRuns, Active
<1>3. /\ live' \subseteq Pdus /\ freed' \subseteq Pdus
      /\ chain' \in [Pdus -> Seq(Pdus)]
      /\ outqueue' \in Seq(Pdus) /\ waitqueue' \in Seq(Pdus)
      /\ Range(outqueue') = Range(outqueue) \ {p}
      /\ Range(waitqueue') = Range(waitqueue) \ {p}
      /\ partial' \in BOOLEAN /\ desync' \in BOOLEAN
      /\ ChainsSound'
  BY <1>1, <1>2, FreeFacts
<1>4. Range(chain[p]) \subseteq Pdus /\ p \in Range(chain[p])
  BY <1>1, <1>2, ChainFacts
<1>5. calls' \in [Pdus -> Seq(Statuses)] /\ mid' = mid /\ calls' = calls
      /\ pdu' = pdu /\ ctx' = ctx
  BY <1>1, <1>2 DEF TypeOK, hdrVars, recvVars, ctxVars
<1>6. LinksSound'
  BY <1>2, <1>4, <1>5, FreeLinks
<1>7. CallsSound'
  <2>1. \A x \in cancelled' : x \in freed' /\ calls'[x] = <<>>
    BY <1>1, <1>2, <1>4, <1>5 DEF CallsSound, FreePdu, TypeOK
  <2>2. Len(calls'[p]) <= 1
    BY <1>1, <1>5 DEF CallsSound
  <2> QED BY <1>2, <1>5, <2>1, <2>2, FreeCalls
<1>8. TypeOK'
  BY <1>1, <1>2, <1>3, <1>4
     DEF TypeOK, hdrVars, recvVars, ctxVars, peerVars
<1>9. SweepSound'
  BY <1>1, <1>2, <1>3, <1>4 DEF SweepSound
<1>10. RecvSound' /\ MemorySafe'
  BY <1>1, <1>2, NothingTouched DEF RecvSound, recvVars, ctxVars
<1> QED BY <1>3, <1>6, <1>7, <1>8, <1>9, <1>10 DEF IInv

(* Freeing a caller-freed PDU after its reply keeps IInv. *)
LEMMA FreeCalledIInv ==
    ASSUME IInv, NEW p \in Pdus, FreeCalled(p)
    PROVE  IInv'
<1>1. /\ TypeOK /\ ChainsSound /\ CallsSound /\ LinksSound
      /\ RecvSound /\ SweepSound /\ MemorySafe
      /\ IsInjective(outqueue) /\ IsInjective(waitqueue)
  BY DEF IInv, LinksSound
<1>2. /\ calls[p] # <<>> /\ FreePdu(p)
      /\ UNCHANGED <<hdrVars, recvVars, ctxVars, sweep, now, peerVars,
                     histVars>>
  BY DEF FreeCalled
<1>3. /\ live' \subseteq Pdus /\ freed' \subseteq Pdus
      /\ chain' \in [Pdus -> Seq(Pdus)]
      /\ outqueue' \in Seq(Pdus) /\ waitqueue' \in Seq(Pdus)
      /\ Range(outqueue') = Range(outqueue) \ {p}
      /\ Range(waitqueue') = Range(waitqueue) \ {p}
      /\ partial' \in BOOLEAN /\ desync' \in BOOLEAN
      /\ ChainsSound' /\ freed \subseteq freed'
  BY <1>1, <1>2, FreeFacts
<1>4. /\ p \notin Range(outqueue) /\ p \notin Range(waitqueue) /\ p # pdu
  BY <1>1, <1>2, CancelledGone DEF LinksSound, Awaits
<1>5. calls' \in [Pdus -> Seq(Statuses)] /\ mid' = mid /\ calls' = calls
      /\ pdu' = pdu /\ ctx' = ctx /\ cancelled' = cancelled
  BY <1>1, <1>2 DEF TypeOK, hdrVars, recvVars, ctxVars, histVars
<1>6. LinksSound'
  BY <1>2, <1>4, <1>5, FreeLinks
<1>7. CallsSound'
  <2>1. \A x \in cancelled' : x \in freed' /\ calls'[x] = <<>>
    BY <1>1, <1>3, <1>5 DEF CallsSound, TypeOK
  <2>2. Len(calls'[p]) <= 1 /\ (mid[p] = NoMid => calls'[p] = <<>>)
    BY <1>1, <1>5 DEF CallsSound
  <2> QED BY <1>2, <1>5, <2>1, <2>2, FreeCalls
<1>8. TypeOK'
  BY <1>1, <1>2, <1>3
     DEF TypeOK, hdrVars, recvVars, ctxVars, peerVars, histVars
<1>9. SweepSound'
  BY <1>1, <1>2, <1>3, <1>4, <1>5 DEF SweepSound
<1>10. RecvSound' /\ MemorySafe'
  <2>1. RecvSound'
    BY <1>1, <1>2 DEF RecvSound, recvVars, ctxVars
  <2>2. MemorySafe'
    BY NothingTouched DEF FreeCalled, AppRuns, Active, histVars
  <2> QED BY <2>1, <2>2
<1> QED BY <1>3, <1>6, <1>7, <1>8, <1>9, <1>10 DEF IInv

-----------------------------------------------------------------------------
(* Receiving. *)

(* A frame is a sequence of replies. *)
LEMMA FrameType ==
    ASSUME NEW mids \in SUBSET Int, NEW f \in Frames(mids)
    PROVE  f \in Seq(Replies(Int)) /\ f # <<>>
<1>1. CASE \E r \in Replies(mids) : f = <<r>>
  <2>1. PICK r \in Replies(mids) : f = <<r>>
    BY <1>1
  <2>4. r \in Replies(Int)
    BY DEF Replies
  <2> QED BY <2>1, <2>4, SmallSeq
<1>2. CASE f \in FinalFrames(mids)
  <2>1. PICK T \in SUBSET mids :
            /\ Cardinality(T) \in 1..MaxFrame
            /\ \E s \in SetToSeqs(T) : \E g \in [DOMAIN s -> Grants] :
                   f = [i \in DOMAIN s |->
                           [kind |-> "final", mid |-> s[i], grant |-> g[i]]]
    BY <1>2 DEF FinalFrames
  <2>2. PICK s \in SetToSeqs(T) : \E g \in [DOMAIN s -> Grants] :
            f = [i \in DOMAIN s |->
                    [kind |-> "final", mid |-> s[i], grant |-> g[i]]]
    BY <2>1
  <2>3. PICK g \in [DOMAIN s -> Grants] :
            f = [i \in DOMAIN s |->
                    [kind |-> "final", mid |-> s[i], grant |-> g[i]]]
    BY <2>2
  <2>4. s \in [1..Cardinality(T) -> T] /\ DOMAIN s = 1..Cardinality(T)
    BY DEF SetToSeqs
  <2> DEFINE k == Cardinality(T)
  <2>5. k \in Nat /\ 1 <= k
    BY <2>1, EngineAssumption
  <2> HIDE DEF k
  <2>6. f \in [1..k -> Replies(Int)]
    BY <2>3, <2>4 DEF Replies, k
  <2>7. f \in Seq(Replies(Int)) /\ DOMAIN f = 1..k
    BY <2>5, <2>6, SeqDef
  <2>8. f # <<>>
    BY <2>5, <2>7
  <2> QED BY <2>7, <2>8
<1> QED BY <1>1, <1>2 DEF Frames

(* The arrival of a frame keeps IInv. *)
LEMMA RecvSplIInv ==
    ASSUME IInv, NEW f \in Frames(owed), RecvSpl(f)
    PROVE  IInv'
<1>1. TypeOK
  BY DEF IInv
<1>2. f \in Seq(Replies(Int)) /\ f # <<>>
  BY <1>1, FrameType DEF TypeOK
<1>3. TypeOK'
  BY <1>1, <1>2 DEF RecvSpl, TypeOK, pduVars, hdrVars, queueVars, ctxVars,
     histVars
<1>4. /\ ChainsSound' /\ CallsSound' /\ LinksSound'
      /\ SweepSound' /\ MemorySafe'
  BY DEF IInv, RecvSpl, pduVars, hdrVars, queueVars, ctxVars, histVars,
     ChainsSound, CallsSound, LinksSound, Awaits, SweepSound, MemorySafe
<1>5. RecvSound'
  BY <1>2 DEF IInv, RecvSpl, RecvSound, ctxVars
<1> QED BY <1>3, <1>4, <1>5 DEF IInv

(* Matching a reply with its request keeps IInv. *)
LEMMA RecvHeaderIInv ==
    ASSUME IInv, RecvHeader
    PROVE  IInv'
<1> DEFINE r == Head(frame)
<1>1. /\ TypeOK /\ ChainsSound /\ CallsSound /\ LinksSound
      /\ RecvSound /\ SweepSound /\ MemorySafe
  BY DEF IInv
<1>2. /\ recv_state = "HEADER" /\ ctx = "active" /\ sweep.phase = "idle"
      /\ credits' = credits + r.grant
      /\ UNCHANGED <<pduVars, hdrVars, outqueue, partial, frame, message_id,
                     dialect, sweep, now, peerVars, desync, histVars>>
  BY DEF RecvHeader, Active, Idle
<1>3. /\ frame # <<>> /\ pdu = NoPdu /\ sweep.next = NoPdu
  BY <1>1, <1>2 DEF RecvSound, SweepSound
<1>4. credits' \in Nat
  <2>1. r \in Replies(Int)
    BY <1>1, <1>3, HeadTailProperties DEF TypeOK
  <2>2. r.grant \in Nat
    BY <2>1, EngineAssumption DEF Replies
  <2>3. \A k \in Nat : credits + k \in Nat
    BY <1>1 DEF TypeOK
  <2>4. credits' = credits + r.grant
    BY <1>2
  <2> QED BY <2>2, <2>3, <2>4, Zenon
<1>5. CASE \/ DiscardRest
           \/ /\ pdu' = BreakPdu /\ recv_state' = "BODY"
              /\ UNCHANGED <<waitqueue, ctx>>
  <2>1. /\ waitqueue' = waitqueue /\ ctx' = ctx
        /\ \/ pdu' = NoPdu /\ recv_state' = "DISCARD"
           \/ pdu' = BreakPdu /\ recv_state' = "BODY"
    BY <1>3, <1>5 DEF DiscardRest
  <2>2. pdu' \notin Pdus
    BY <2>1, EngineAssumption
  <2>3. TypeOK'
    BY <1>1, <1>2, <1>4, <2>1 DEF TypeOK, pduVars, hdrVars, peerVars, histVars
  <2>4. ChainsSound' /\ CallsSound'
    BY <1>1, <1>2 DEF ChainsSound, CallsSound, pduVars, hdrVars, histVars
  <2>5. LinksSound'
    BY <1>1, <1>2, <2>1, <2>2 DEF LinksSound, Awaits, pduVars, hdrVars, histVars
  <2>6. RecvSound' /\ SweepSound' /\ MemorySafe'
    BY <1>1, <1>2, <1>3, <2>1
       DEF RecvSound, SweepSound, MemorySafe, histVars
  <2> QED BY <2>3, <2>4, <2>5, <2>6 DEF IInv
<1>6. CASE \E p \in FindPdu(r.mid) : TakePdu(p)
  <2>1. PICK p \in Range(waitqueue) : TakePdu(p)
    BY <1>6 DEF FindPdu
  <2>2. /\ p \in Pdus /\ Awaits(p) /\ chain[p] = <<p>> /\ pdu' = p
        /\ p \notin Range(outqueue)
    BY <1>1, <2>1, ChainFacts DEF LinksSound, TakePdu
  <2>3. \/ ctx' = "failed" /\ waitqueue' = waitqueue /\ recv_state' = "HEADER"
        \/ /\ waitqueue' = RemoveFirst(waitqueue, p)
           /\ recv_state' = "BODY" /\ ctx' = ctx
    BY <1>2, <2>1 DEF TakePdu
  <2>4. waitqueue \in Seq(Pdus) /\ IsInjective(waitqueue)
    BY <1>1 DEF TypeOK, LinksSound
  <2>5. /\ RemoveFirst(waitqueue, p) \in Seq(Pdus)
        /\ IsInjective(RemoveFirst(waitqueue, p))
        /\ Range(RemoveFirst(waitqueue, p)) = Range(waitqueue) \ {p}
    BY <2>4, RemoveFirstSeq
  <2>6. /\ waitqueue' \in Seq(Pdus) /\ IsInjective(waitqueue')
        /\ Range(waitqueue') \subseteq Range(waitqueue)
        /\ p \in Range(waitqueue') => ctx' = "failed"
        /\ ctx' \in {"active", "failed"}
        /\ recv_state' \in {"HEADER", "BODY"}
        /\ ctx' = "active" => recv_state' = "BODY"
    BY <1>2, <2>3, <2>4, <2>5
  <2>7. TypeOK'
    BY <1>1, <1>2, <1>4, <2>2, <2>6
       DEF TypeOK, pduVars, hdrVars, peerVars, histVars
  <2>8. ChainsSound' /\ CallsSound'
    BY <1>1, <1>2 DEF ChainsSound, CallsSound, pduVars, hdrVars, histVars
  <2>9. LinksSound'
    BY <1>1, <1>2, <2>2, <2>6 DEF LinksSound, Awaits, pduVars, hdrVars, histVars
  <2>10. RecvSound' /\ SweepSound' /\ MemorySafe'
    BY <1>1, <1>2, <1>3, <2>6 DEF RecvSound, SweepSound, MemorySafe, histVars
  <2> QED BY <2>7, <2>8, <2>9, <2>10 DEF IInv
<1> QED BY <1>5, <1>6 DEF RecvHeader

(* Discarding the rest of a frame keeps IInv. *)
LEMMA RecvDiscardIInv ==
    ASSUME IInv, RecvDiscard
    PROVE  IInv'
<1>1. <<>> \in Seq(Replies(Int))
  BY SmallSeq
<1>2. TypeOK'
  BY <1>1 DEF IInv, RecvDiscard, TypeOK, pduVars, hdrVars, queueVars, ctxVars,
     peerVars, histVars
<1>3. /\ ChainsSound' /\ CallsSound' /\ LinksSound'
      /\ SweepSound' /\ MemorySafe' /\ RecvSound'
  BY DEF IInv, RecvDiscard, pduVars, hdrVars, queueVars, ctxVars, histVars,
     ChainsSound, CallsSound, LinksSound, Awaits, SweepSound, MemorySafe,
     RecvSound, Active
<1> QED BY <1>2, <1>3 DEF IInv

(* Delivering a reply keeps IInv. *)
LEMMA RecvBodyIInv ==
    ASSUME IInv, RecvBody
    PROVE  IInv'
<1>1. /\ TypeOK /\ ChainsSound /\ CallsSound /\ LinksSound
      /\ RecvSound /\ SweepSound /\ MemorySafe
      /\ IsInjective(outqueue) /\ IsInjective(waitqueue)
  BY DEF IInv, LinksSound
<1>2. /\ recv_state = "BODY" /\ ctx = "active" /\ sweep.phase = "idle" /\ faults = {}
      /\ UNCHANGED <<hdrVars, credits, message_id, ctx, sweep, now, peerVars,
                     cancelled>>
  BY DEF RecvBody, Active, Idle
<1>3. /\ frame # <<>> /\ sweep.next = NoPdu
  BY <1>1, <1>2 DEF RecvSound, SweepSound
<1>0. CASE pdu \in cancelled
  <2>1. pdu \in freed
    BY <1>0, CancelledGone
  <2>2. /\ faults' = faults \cup {<<"use_after_free", pdu>>}
        /\ UNCHANGED <<pduVars, queueVars, recvVars, dialect, desync, calls>>
    BY <2>1 DEF RecvBody
  <2> QED BY <1>0, <1>2, <2>2, FaultIInv DEF ctxVars
<1> SUFFICES ASSUME pdu \notin cancelled PROVE IInv'
  BY <1>0
<1>4. pdu \in Pdus => /\ pdu \in live /\ pdu \notin freed /\ calls[pdu] = <<>>
                      /\ mid[pdu] # NoMid /\ chain[pdu] # <<>>
                      /\ pdu \notin Range(outqueue)
                      /\ pdu \notin Range(waitqueue)
  <2> SUFFICES ASSUME pdu \in Pdus
               PROVE  /\ pdu \in live /\ pdu \notin freed /\ calls[pdu] = <<>>
                      /\ mid[pdu] # NoMid /\ chain[pdu] # <<>>
                      /\ pdu \notin Range(outqueue)
                      /\ pdu \notin Range(waitqueue)
    OBVIOUS
  <2>1. /\ Awaits(pdu) /\ pdu \notin Range(outqueue)
        /\ pdu \notin Range(waitqueue)
    BY <1>1, <1>2 DEF LinksSound
  <2>2. pdu \in live
    BY <1>1, <2>1, ChainFacts DEF Awaits
  <2> QED BY <1>1, <2>1, <2>2 DEF Awaits, ChainsSound
<1>5. pdu \notin freed
  BY <1>1, <1>4 DEF TypeOK
<1>6. /\ pdu' = NoPdu /\ frame' = Tail(frame)
      /\ recv_state' = IF Tail(frame) = <<>> THEN "SPL" ELSE "HEADER"
      /\ calls' = [p \in Pdus |-> IF p = pdu THEN Append(calls[p], "REPLY")
                                            ELSE calls[p]]
      /\ IF pdu \in Pdus \ CallerFrees THEN FreePdu(pdu)
                                       ELSE UNCHANGED <<pduVars, queueVars, desync>>
      /\ IF pdu \in Negotiates THEN dialect' \in Dialects ELSE UNCHANGED dialect
      /\ faults' = faults
  BY <1>5 DEF RecvBody
<1>7. /\ frame' \in Seq(Replies(Int)) /\ recv_state' \in {"SPL", "HEADER"}
      /\ recv_state' # "SPL" => frame' # <<>>
      /\ dialect' \in 0..2
  <2>1. Tail(frame) \in Seq(Replies(Int))
    BY <1>1, <1>3, HeadTailProperties DEF TypeOK
  <2>2. dialect' \in 0..2
    <3>1. dialect' \in Dialects \/ dialect' = dialect
      BY <1>6, Zenon
    <3>2. dialect \in 0..2
      BY <1>1 DEF TypeOK
    <3>3. \A d \in Dialects : d \in 0..2
      BY EngineAssumption
    <3> QED BY <3>1, <3>2, <3>3, Zenon
  <2> QED BY <1>6, <2>1, <2>2
<1>8. /\ calls' \in [Pdus -> Seq(Statuses)]
      /\ \A x \in Pdus : x # pdu => calls'[x] = calls[x]
      /\ pdu \in Pdus => Len(calls'[pdu]) <= 1
  <2>1. "REPLY" \in Statuses /\ <<>> \in Seq(Statuses) /\ Len(<<>>) = 0
    BY EmptySeq DEF Statuses
  <2>2. \A s \in Seq(Statuses) : /\ Append(s, "REPLY") \in Seq(Statuses)
                                 /\ Len(Append(s, "REPLY")) = Len(s) + 1
    BY <2>1, AppendProperties
  <2>3. calls' \in [Pdus -> Seq(Statuses)]
    BY <1>1, <1>6, <2>2 DEF TypeOK
  <2>4. pdu \in Pdus => Len(calls'[pdu]) = 1
    BY <1>4, <1>6, <2>1, <2>2
  <2> QED BY <1>6, <2>3, <2>4
<1>9. mid' = mid /\ ctx' = ctx /\ cancelled' = cancelled
  BY <1>2 DEF hdrVars
<1>10. RecvSound' /\ SweepSound' /\ MemorySafe'
  BY <1>1, <1>2, <1>3, <1>6, <1>7, NothingTouched DEF RecvSound, SweepSound
<1>11. CASE pdu \in Pdus \ CallerFrees
  <2>1. FreePdu(pdu)
    BY <1>6, <1>11
  <2>2. /\ live' \subseteq Pdus /\ freed' \subseteq Pdus
        /\ chain' \in [Pdus -> Seq(Pdus)]
        /\ outqueue' \in Seq(Pdus) /\ waitqueue' \in Seq(Pdus)
        /\ partial' \in BOOLEAN /\ desync' \in BOOLEAN
        /\ ChainsSound' /\ freed \subseteq freed'
    BY <1>1, <1>11, <2>1, FreeFacts
  <2>3. LinksSound'
    BY <1>6, <1>8, <1>9, <1>11, <2>1, FreeLinks
  <2>4. \A x \in cancelled' : x \in freed' /\ calls'[x] = <<>>
    BY <1>1, <1>4, <1>8, <1>9, <1>11, <2>2 DEF CallsSound, TypeOK
  <2>5. CallsSound'
    BY <1>4, <1>8, <1>9, <1>11, <2>1, <2>4, FreeCalls
  <2>6. TypeOK'
    BY <1>1, <1>2, <1>6, <1>7, <1>8, <2>2 DEF TypeOK, hdrVars, peerVars
  <2> QED BY <1>10, <2>2, <2>3, <2>5, <2>6 DEF IInv
<1>12. CASE pdu \notin Pdus \ CallerFrees
  <2>1. UNCHANGED <<pduVars, queueVars, desync>>
    BY <1>6, <1>12
  <2>2. TypeOK'
    BY <1>1, <1>2, <1>6, <1>7, <1>8, <2>1
       DEF TypeOK, hdrVars, peerVars, pduVars, queueVars
  <2>3. ChainsSound'
    BY <1>1, <2>1 DEF ChainsSound, pduVars
  <2>4. \A h \in Pdus : \A x \in Range(chain[h]) :
            x \in Pdus /\ (x # h => x # pdu)
    BY <1>1, <1>4, ChainFacts
  <2>5. CallsSound'
    <3>1. \A x \in Pdus : /\ Len(calls'[x]) <= 1
                          /\ mid[x] = NoMid => calls'[x] = <<>>
                          /\ x \in cancelled => x \in freed /\ calls'[x] = <<>>
      BY <1>1, <1>4, <1>8 DEF CallsSound
    <3>2. \A h \in Pdus : \A x \in Range(chain[h]) :
              /\ mid[x] = NoMid <=> mid[h] = NoMid
              /\ x # h => calls'[x] = <<>>
      BY <1>1, <1>8, <2>4 DEF CallsSound
    <3> QED BY <1>9, <2>1, <3>1, <3>2 DEF CallsSound, pduVars
  <2>6. LinksSound'
    <3>1. /\ Range(outqueue) \subseteq Pdus /\ Range(waitqueue) \subseteq Pdus
          /\ \A x \in Range(outqueue) \cup Range(waitqueue) : x # pdu
      BY <1>1, <1>4, ChainFacts
    <3>2. NoPdu \notin Pdus
      BY EngineAssumption
    <3> QED BY <1>1, <1>6, <1>8, <1>9, <2>1, <3>1, <3>2
            DEF LinksSound, Awaits, pduVars, queueVars
  <2> QED BY <1>10, <2>2, <2>3, <2>5, <2>6 DEF IInv
<1> QED BY <1>11, <1>12

(* A failure of the service keeps IInv. *)
LEMMA ServiceFailsIInv ==
    ASSUME IInv, ServiceFails
    PROVE  IInv'
<1>1. TypeOK'
  BY DEF IInv, ServiceFails, TypeOK, pduVars, hdrVars, queueVars, recvVars,
     peerVars, histVars
<1>2. /\ ChainsSound' /\ CallsSound' /\ LinksSound'
      /\ SweepSound' /\ MemorySafe' /\ RecvSound'
  BY DEF IInv, ServiceFails, pduVars, hdrVars, queueVars, recvVars, histVars,
     ChainsSound, CallsSound, LinksSound, Awaits, SweepSound, MemorySafe,
     RecvSound
<1> QED BY <1>1, <1>2 DEF IInv

-----------------------------------------------------------------------------
(* Timeouts. *)

(* The clock keeps IInv. *)
LEMMA TickIInv ==
    ASSUME IInv, Tick
    PROVE  IInv'
<1>1. now' \in Nat
  BY DEF IInv, Tick, TypeOK
<1>2. TypeOK'
  BY <1>1 DEF IInv, Tick, TypeOK, pduVars, hdrVars, queueVars, recvVars, ctxVars,
     peerVars, histVars
<1>3. /\ ChainsSound' /\ CallsSound' /\ LinksSound'
      /\ SweepSound' /\ MemorySafe' /\ RecvSound'
  BY DEF IInv, Tick, pduVars, hdrVars, queueVars, recvVars, ctxVars, histVars,
     ChainsSound, CallsSound, LinksSound, Awaits, SweepSound, MemorySafe,
     RecvSound
<1> QED BY <1>2, <1>3 DEF IInv

(* The head of a queue, if it has one, is in it. *)
LEMMA FirstIn ==
    ASSUME NEW q \in Seq(Pdus)
    PROVE  First(q) = NoPdu \/ (First(q) \in Range(q) /\ First(q) \in Pdus)
<1>1. CASE q = <<>>
  BY <1>1 DEF First
<1>2. CASE q # <<>>
  <2>1. Head(q) \in Range(q) /\ Head(q) \in Pdus
    BY <1>2, TailSeq
  <2> QED BY <1>2, <2>1, Zenon DEF First
<1> QED BY <1>1, <1>2

(* Steps that change nothing but the progress of a sweep. *)
LEMMA SweepOnly ==
    ASSUME IInv, UNCHANGED <<pduVars, hdrVars, queueVars, recvVars, ctxVars,
                             now, peerVars, desync, histVars>>,
           sweep' \in [phase : {"idle", "out", "wait"},
                       next : Pdus \cup {NoPdu}, cb : BOOLEAN],
           SweepSound'
    PROVE  IInv'
<1>1. TypeOK'
  BY DEF IInv, TypeOK, pduVars, hdrVars, queueVars, recvVars, ctxVars,
     peerVars, histVars
<1>2. /\ ChainsSound' /\ CallsSound' /\ LinksSound'
      /\ MemorySafe' /\ RecvSound'
  BY DEF IInv, pduVars, hdrVars, queueVars, recvVars, ctxVars, histVars,
     ChainsSound, CallsSound, LinksSound, Awaits, MemorySafe, RecvSound
<1> QED BY <1>1, <1>2 DEF IInv

(* Entering smb2_timeout_pdus keeps IInv. *)
LEMMA SweepBeginIInv ==
    ASSUME IInv, SweepBegin
    PROVE  IInv'
<1>1. outqueue \in Seq(Pdus)
  BY DEF IInv, TypeOK
<1>2. First(outqueue) = NoPdu \/ (/\ First(outqueue) \in Range(outqueue)
                                  /\ First(outqueue) \in Pdus)
  BY <1>1, FirstIn
<1> DEFINE n == First(outqueue)
<1>3. /\ sweep' = [phase |-> "out", next |-> n, cb |-> FALSE]
      /\ UNCHANGED <<pduVars, hdrVars, queueVars, recvVars, ctxVars, now,
                     peerVars, desync, histVars>>
  BY DEF SweepBegin
<1> HIDE DEF n
<1>4. n = NoPdu \/ (n \in Range(outqueue) /\ n \in Pdus)
  BY <1>2 DEF n
<1>5. SweepSound'
  BY <1>3, <1>4, EngineAssumption DEF SweepSound, queueVars
<1>6. sweep' \in [phase : {"idle", "out", "wait"},
                  next : Pdus \cup {NoPdu}, cb : BOOLEAN]
  BY <1>3, <1>4
<1> QED BY <1>3, <1>5, <1>6, SweepOnly

(* A round of the sweep of q, one of the two queues. *)
LEMMA SweepQueueIInv ==
    ASSUME IInv, Active, NEW q \in Seq(Pdus),
           \/ q = outqueue /\ sweep.phase = "out"
           \/ q = waitqueue /\ sweep.phase = "wait",
           SweepQueue(q), faults' = faults,
           UNCHANGED <<hdrVars, recvVars, ctxVars, now, peerVars, cancelled>>
    PROVE  IInv'
<1>1. /\ TypeOK /\ ChainsSound /\ CallsSound /\ LinksSound
      /\ RecvSound /\ SweepSound /\ MemorySafe
      /\ IsInjective(outqueue) /\ IsInjective(waitqueue)
  BY DEF IInv, LinksSound
<1>2. IsInjective(q) /\ \A x \in Range(q) : Awaits(x) /\ x # pdu
  <2>1. Range(outqueue) \subseteq Pdus /\ Range(waitqueue) \subseteq Pdus
    BY <1>1, ChainFacts
  <2> QED BY <1>1, <2>1, CancelledGone DEF LinksSound, Active
<1>3. /\ Len(q) \in Nat /\ DOMAIN q = 1..Len(q)
      /\ \A x : x \in Range(q) <=> \E i \in 1..Len(q) : q[i] = x
      /\ Range(q) \subseteq Pdus
  BY SeqElements
<1>4. CASE /\ sweep' = [sweep EXCEPT !.next = NoPdu, !.cb = FALSE]
           /\ UNCHANGED <<pduVars, queueVars, desync, calls>>
  <2>1. sweep' \in [phase : {"idle", "out", "wait"},
                    next : Pdus \cup {NoPdu}, cb : BOOLEAN]
        /\ sweep'.next = NoPdu
    BY <1>1, <1>4 DEF TypeOK
  <2>2. SweepSound'
    BY <2>1, EngineAssumption DEF SweepSound
  <2>3. UNCHANGED <<pduVars, hdrVars, queueVars, recvVars, ctxVars, now,
                    peerVars, desync, histVars>>
    BY <1>4 DEF histVars
  <2> QED BY <2>1, <2>2, <2>3, SweepOnly
<1>5. ASSUME NEW i \in DOMAIN q,
             sweep' = [sweep EXCEPT !.cb = TRUE,
                                    !.next = IF i < Len(q) THEN q[i + 1]
                                                           ELSE NoPdu],
             calls' = [calls EXCEPT ![q[i]] = Append(@, "IO_TIMEOUT")],
             FreePdu(q[i])
      PROVE  IInv'
  <2> DEFINE p == q[i]
             n == IF i < Len(q) THEN q[i + 1] ELSE NoPdu
  <2>1. p \in Range(q) /\ p \in Pdus /\ Awaits(p) /\ p # pdu
    BY <1>2, <1>3
  <2>2. /\ chain[p] # <<>> /\ mid[p] # NoMid /\ calls[p] = <<>>
        /\ p \in live /\ p \notin freed
    BY <1>1, <2>1, ChainFacts DEF Awaits, ChainsSound
  <2>3. n = NoPdu \/ (n \in Range(q) \ {p} /\ n \in Pdus)
    <3>1. CASE i < Len(q)
      <4>1. i + 1 \in 1..Len(q) /\ i + 1 # i
        BY <1>3, <3>1
      <4>2. q[i + 1] \in Range(q) /\ q[i + 1] # q[i]
        BY <1>2, <1>3, <4>1 DEF IsInjective
      <4> QED BY <1>3, <3>1, <4>2
    <3>2. CASE ~(i < Len(q))
      BY <3>2
    <3> QED BY <3>1, <3>2
  <2>4. /\ sweep' = [sweep EXCEPT !.cb = TRUE, !.next = n]
        /\ calls' = [calls EXCEPT ![p] = Append(@, "IO_TIMEOUT")]
        /\ FreePdu(p)
    BY <1>5
  <2> HIDE DEF p, n
  <2>5. /\ live' \subseteq Pdus /\ freed' \subseteq Pdus
        /\ chain' \in [Pdus -> Seq(Pdus)]
        /\ outqueue' \in Seq(Pdus) /\ waitqueue' \in Seq(Pdus)
        /\ Range(outqueue') = Range(outqueue) \ {p}
        /\ Range(waitqueue') = Range(waitqueue) \ {p}
        /\ partial' \in BOOLEAN /\ desync' \in BOOLEAN
        /\ ChainsSound' /\ freed \subseteq freed'
    BY <1>1, <2>1, <2>4, FreeFacts
  <2>6. /\ calls' \in [Pdus -> Seq(Statuses)]
        /\ \A x \in Pdus \ {p} : calls'[x] = calls[x]
        /\ Len(calls'[p]) <= 1
    <3>1. "IO_TIMEOUT" \in Statuses /\ <<>> \in Seq(Statuses) /\ Len(<<>>) = 0
      BY EmptySeq DEF Statuses
    <3>2. /\ Append(<<>>, "IO_TIMEOUT") \in Seq(Statuses)
          /\ Len(Append(<<>>, "IO_TIMEOUT")) = 1
      BY <3>1, AppendProperties
    <3>3. calls \in [Pdus -> Seq(Statuses)]
      BY <1>1 DEF TypeOK
    <3> QED BY <2>1, <2>2, <2>4, <3>2, <3>3
  <2>7. /\ mid' = mid /\ pdu' = pdu /\ ctx' = ctx /\ cancelled' = cancelled
    BY DEF hdrVars, recvVars, ctxVars
  <2>8. LinksSound'
    BY <2>1, <2>4, <2>6, <2>7, FreeLinks
  <2>9. \A x \in cancelled' : x \in freed' /\ calls'[x] = <<>>
    BY <1>1, <2>2, <2>5, <2>6, <2>7 DEF CallsSound, TypeOK
  <2>10. CallsSound'
    BY <2>1, <2>2, <2>4, <2>6, <2>7, <2>9, FreeCalls
  <2>11. /\ sweep' \in [phase : {"idle", "out", "wait"},
                        next : Pdus \cup {NoPdu}, cb : BOOLEAN]
         /\ sweep'.phase = sweep.phase /\ sweep'.next = n
    BY <1>1, <2>3, <2>4 DEF TypeOK
  <2>12. SweepSound'
    BY <1>1, <2>3, <2>5, <2>11, EngineAssumption DEF SweepSound
  <2>13. TypeOK'
    BY <1>1, <2>5, <2>6, <2>11
       DEF TypeOK, hdrVars, recvVars, ctxVars, peerVars
  <2>14. RecvSound' /\ MemorySafe'
    BY <1>1, NothingTouched DEF RecvSound, recvVars, ctxVars, Active
  <2> QED BY <2>5, <2>8, <2>10, <2>12, <2>13, <2>14 DEF IInv
<1> QED BY <1>4, <1>5 DEF SweepQueue

(* A round of smb2_timeout_pdus keeps IInv. *)
LEMMA SweepStepIInv ==
    ASSUME IInv, SweepStep
    PROVE  IInv'
<1>1. /\ TypeOK /\ ChainsSound /\ LinksSound /\ SweepSound
      /\ outqueue \in Seq(Pdus) /\ waitqueue \in Seq(Pdus)
  BY DEF IInv, TypeOK
<1>2. /\ Active /\ sweep.phase # "idle"
      /\ UNCHANGED <<hdrVars, recvVars, ctxVars, now, peerVars, cancelled>>
  BY DEF SweepStep, Idle
<1>3. CASE /\ sweep' = IF sweep.phase = "out"
                       THEN [phase |-> "wait", next |-> First(waitqueue),
                             cb |-> FALSE]
                       ELSE [phase |-> "idle", next |-> NoPdu, cb |-> FALSE]
           /\ UNCHANGED <<pduVars, queueVars, desync, calls, faults>>
  <2> DEFINE n == First(waitqueue)
  <2>1. n = NoPdu \/ (n \in Range(waitqueue) /\ n \in Pdus)
    BY <1>1, FirstIn
  <2> HIDE DEF n
  <2>2. \/ sweep' = [phase |-> "wait", next |-> n, cb |-> FALSE]
        \/ sweep' = [phase |-> "idle", next |-> NoPdu, cb |-> FALSE]
    BY <1>3 DEF n
  <2>3. sweep' \in [phase : {"idle", "out", "wait"},
                    next : Pdus \cup {NoPdu}, cb : BOOLEAN]
    <3>1. CASE sweep' = [phase |-> "wait", next |-> n, cb |-> FALSE]
      BY <2>1, <3>1
    <3>2. CASE sweep' = [phase |-> "idle", next |-> NoPdu, cb |-> FALSE]
      BY <3>2
    <3> QED BY <2>2, <3>1, <3>2
  <2>4. SweepSound'
    BY <1>3, <2>1, <2>2, EngineAssumption DEF SweepSound, queueVars
  <2>5. UNCHANGED <<pduVars, hdrVars, queueVars, recvVars, ctxVars, now,
                    peerVars, desync, histVars>>
    BY <1>2, <1>3 DEF histVars
  <2> QED BY <2>3, <2>4, <2>5, SweepOnly
<1>4. ASSUME sweep.next \in freed PROVE sweep.next \in cancelled
  <2> SUFFICES ASSUME sweep.next \notin cancelled PROVE FALSE
    OBVIOUS
  <2>1. sweep.next \in Pdus /\ sweep.next # NoPdu
    BY <1>1, <1>4, EngineAssumption DEF TypeOK
  <2>2. sweep.phase = "out" \/ sweep.phase = "wait"
    BY <1>1, <1>2 DEF TypeOK
  <2>3. Awaits(sweep.next)
    BY <1>1, <2>1, <2>2 DEF SweepSound, LinksSound
  <2>4. sweep.next \in live
    BY <1>1, <2>1, <2>3, ChainFacts DEF Awaits
  <2> QED BY <1>1, <1>4, <2>4 DEF ChainsSound
<1>5. CASE sweep.phase = "out" /\ SweepQueue(outqueue) /\ faults' = faults
  BY <1>1, <1>2, <1>5, SweepQueueIInv
<1>6. CASE sweep.phase = "wait" /\ SweepQueue(waitqueue) /\ faults' = faults
  BY <1>1, <1>2, <1>6, SweepQueueIInv
<1>7. CASE /\ sweep.next \in freed /\ faults' = faults \cup {<<"use_after_free", sweep.next>>}
           /\ UNCHANGED <<pduVars, queueVars, sweep, desync, calls>>
  BY <1>2, <1>4, <1>7, FaultIInv DEF Active
<1> QED BY <1>3, <1>5, <1>6, <1>7 DEF SweepStep

-----------------------------------------------------------------------------
(* Teardown. *)

(* smb2_destroy_context keeps IInv. *)
LEMMA DestroyIInv ==
    ASSUME IInv, DestroyContext
    PROVE  IInv'
<1> DEFINE waiting == RemoveFirst(waitqueue, pdu)
           heads == Range(outqueue) \cup (({pdu} \cap Pdus) \ cancelled) \cup Range(waiting)
           gone == (UNION {Range(chain[h]) : h \in Range(outqueue)})
                   \cup ({pdu} \cap Pdus) \cup Range(waiting)
           Out(p) == p \in Range(outqueue)
           Cur(p) == p = pdu /\ p \notin freed
           Wait(p) == p \in Range(waiting)
<1>1. /\ TypeOK /\ ChainsSound /\ CallsSound /\ LinksSound
      /\ RecvSound /\ SweepSound /\ MemorySafe
      /\ waitqueue \in Seq(Pdus) /\ IsInjective(waitqueue)
  BY DEF IInv, LinksSound, TypeOK
<1>2. /\ sweep.phase = "idle" /\ ctx' = "destroyed" /\ faults = {}
      /\ calls' = [p \in Pdus |-> calls[p] \o Shutdown(Out(p))
                                  \o Shutdown(Cur(p)) \o Shutdown(Wait(p))]
      /\ live' = live \ gone /\ freed' = freed \cup gone
      /\ chain' = [p \in Pdus |-> IF p \in gone THEN <<>> ELSE chain[p]]
      /\ faults' = IF pdu \in freed
                   THEN faults \cup {<<"use_after_free", pdu>>} ELSE faults
      /\ outqueue' = <<>> /\ waitqueue' = <<>> /\ partial' = FALSE
      /\ pdu' = NoPdu
      /\ UNCHANGED <<hdrVars, recv_state, frame, credits, message_id, dialect,
                     sweep, now, peerVars, desync, cancelled>>
  BY DEF DestroyContext, WaitingAtShutdown, Idle
<1>3. /\ Range(waiting) = Range(waitqueue) \ {pdu}
      /\ Range(outqueue) \subseteq Pdus /\ Range(waitqueue) \subseteq Pdus
  BY <1>1, RemoveFirstSeq, ChainFacts
<1> HIDE DEF waiting
<1>4. \A x : x \in gone <=> \/ \E h \in Range(outqueue) : x \in Range(chain[h])
                            \/ x \in {pdu} \cap Pdus
                            \/ x \in Range(waiting)
  <2> DEFINE U == UNION {Range(chain[h]) : h \in Range(outqueue)}
  <2>1. \A x : x \in U <=> \E h \in Range(outqueue) : x \in Range(chain[h])
    OBVIOUS
  <2>2. gone = U \cup ({pdu} \cap Pdus) \cup Range(waiting)
    BY Zenon
  <2> HIDE DEF U, gone
  <2> QED BY <2>1, <2>2
<1> HIDE DEF gone
<1>5. \A h \in heads : /\ h \in Pdus /\ Awaits(h) /\ h \in Range(chain[h])
                       /\ h \in live /\ Range(chain[h]) \subseteq gone
  <2>1. \A h \in heads : h \in Pdus /\ Awaits(h)
    BY <1>1, <1>3 DEF LinksSound
  <2>2. \A h \in heads : h \in Range(chain[h]) /\ h \in live
    BY <1>1, <2>1, ChainFacts DEF Awaits
  <2>3. ASSUME NEW h \in heads PROVE Range(chain[h]) \subseteq gone
    <3>1. CASE h \in Range(outqueue)
      BY <1>4, <3>1
    <3>2. CASE h \in (({pdu} \cap Pdus) \ cancelled) \cup Range(waiting)
      <4>1. chain[h] = <<h>>
        BY <1>1, <1>3, <3>2 DEF LinksSound
      <4>2. Range(chain[h]) = {h}
        BY <2>1, <4>1, SmallSeq
      <4> QED BY <1>4, <3>2, <4>2
    <3> QED BY <3>1, <3>2
  <2> QED BY <2>1, <2>2, <2>3
<1>6. \A x \in gone : /\ x \in Pdus
                      /\ x \in cancelled \/ \E h \in heads : x \in Range(chain[h])
  <2>1. \A h \in Range(outqueue) : Range(chain[h]) \subseteq Pdus
    BY <1>1, <1>3, ChainFacts
  <2> QED BY <1>3, <1>5, <1>4, <2>1
<1>7. /\ <<>> \in Seq(Pdus) /\ Range(<<>>) = {} /\ IsInjective(<<>>)
      /\ <<>> \in Seq(Statuses)
  BY SmallSeq
<1>8. heads \subseteq gone /\ \A x \in cancelled : x \in freed /\ x \notin live /\ x \notin heads
  BY <1>3, <1>5, CancelledGone
<1>9. /\ \A g \in gone : chain'[g] = <<>>
      /\ \A g \in Pdus \ gone : chain'[g] = chain[g]
      /\ chain' \in [Pdus -> Seq(Pdus)]
  BY <1>1, <1>2, <1>6, <1>7 DEF TypeOK
<1>10. \A g \in Pdus \ gone : Range(chain[g]) \cap gone = {}
  <2> SUFFICES ASSUME NEW g \in Pdus \ gone, NEW x \in Range(chain[g]), x \in gone
               PROVE  FALSE
    OBVIOUS
  <2>0. x \notin cancelled
    BY <1>1, <1>8 DEF ChainsSound
  <2>1. PICK h \in heads : x \in Range(chain[h])
    BY <1>6, <2>0
  <2>2. h \in Pdus /\ h # g
    BY <1>5, <1>8
  <2> QED BY <1>1, <2>1, <2>2 DEF ChainsSound
<1>11. ChainsSound'
  <2>1. ASSUME NEW g \in Pdus
        PROVE  /\ IsInjective(chain'[g])
               /\ Range(chain'[g]) \subseteq live'
               /\ chain'[g] # <<>> => chain'[g][1] = g
    <3>1. CASE g \in gone
      BY <1>7, <1>9, <3>1
    <3>2. CASE g \notin gone
      BY <1>1, <1>2, <1>9, <1>10, <3>2 DEF ChainsSound
    <3> QED BY <3>1, <3>2
  <2>2. ASSUME NEW g \in Pdus, NEW k \in Pdus, g # k
        PROVE  Range(chain'[g]) \cap Range(chain'[k]) = {}
    BY <1>1, <1>7, <1>9, <2>2 DEF ChainsSound
  <2>3. live' \cap freed' = {}
    BY <1>1, <1>2 DEF ChainsSound
  <2> QED BY <2>1, <2>2, <2>3 DEF ChainsSound
<1>12. ASSUME NEW p \in Pdus
       PROVE  /\ calls'[p] \in Seq(Statuses)
              /\ p \notin heads => calls'[p] = calls[p]
              /\ Len(calls'[p]) <= 1
  <2>1. calls[p] \in Seq(Statuses) /\ Len(calls[p]) <= 1
    BY <1>1 DEF TypeOK, CallsSound
  <2>2. calls'[p] = calls[p] \o Shutdown(Out(p)) \o Shutdown(Cur(p))
                    \o Shutdown(Wait(p))
    BY <1>2
  <2>3. \A s \in Seq(Statuses) : s \o <<>> = s /\ <<>> \o s = s
    BY ConcatEmptySeq
  <2>4. <<"SHUTDOWN">> \in Seq(Statuses) /\ Len(<<"SHUTDOWN">>) = 1
    BY SmallSeq DEF Statuses
  <2>5. CASE p \notin heads
    <3>1. ~Out(p) /\ ~Cur(p) /\ ~Wait(p)
      BY <1>8, <2>5
    <3>2. calls'[p] = calls[p] \o <<>> \o <<>> \o <<>>
      BY <2>2, <3>1, Zenon DEF Shutdown
    <3>3. calls'[p] = calls[p]
      BY <2>1, <2>3, <3>2, Zenon
    <3> QED BY <2>1, <3>3
  <2>6. CASE p \in heads
    <3>1. calls[p] = <<>>
      BY <1>5, <2>6 DEF Awaits
    <3>2. \/ Out(p) /\ ~Cur(p) /\ ~Wait(p)
          \/ ~Out(p) /\ Cur(p) /\ ~Wait(p)
          \/ ~Out(p) /\ ~Cur(p) /\ Wait(p)
      BY <1>1, <1>3, <1>5, <1>8, <2>6 DEF LinksSound, ChainsSound
    <3>3. \/ calls'[p] = <<>> \o <<"SHUTDOWN">> \o <<>> \o <<>>
          \/ calls'[p] = <<>> \o <<>> \o <<"SHUTDOWN">> \o <<>>
          \/ calls'[p] = <<>> \o <<>> \o <<>> \o <<"SHUTDOWN">>
      BY <2>2, <3>1, <3>2, Zenon DEF Shutdown
    <3>4. calls'[p] = <<"SHUTDOWN">>
      BY <1>7, <2>3, <2>4, <3>3, Zenon
    <3> QED BY <2>4, <2>6, <3>4
  <2> QED BY <2>5, <2>6
<1>13. calls' \in [Pdus -> Seq(Statuses)]
  <2>1. \E F : calls' = [p \in Pdus |-> F[p]]
    <3>1. calls' = [p \in Pdus |-> calls'[p]]
      BY <1>2
    <3> QED BY <3>1
  <2> QED BY <1>12, <2>1
<1>14. CallsSound'
  <2>1. ASSUME NEW p \in Pdus
        PROVE  /\ Len(calls'[p]) <= 1
               /\ mid'[p] = NoMid => calls'[p] = <<>>
               /\ p \in cancelled' => p \in freed' /\ calls'[p] = <<>>
    <3>1. mid' = mid /\ cancelled' = cancelled /\ freed \subseteq freed'
      BY <1>2 DEF hdrVars
    <3>2. p \in heads => mid[p] # NoMid /\ p \notin freed
      BY <1>1, <1>5 DEF Awaits, ChainsSound
    <3> QED BY <1>1, <1>12, <3>1, <3>2 DEF CallsSound
  <2>2. ASSUME NEW g \in Pdus, NEW x \in Range(chain'[g])
        PROVE  /\ mid'[x] = NoMid <=> mid'[g] = NoMid
               /\ x # g => calls'[x] = <<>>
    <3>1. g \notin gone /\ x \in Range(chain[g])
      BY <1>7, <1>9
    <3>2. x \in Pdus /\ x \notin heads
      BY <1>1, <1>8, <1>10, <3>1, ChainFacts
    <3>3. mid' = mid
      BY <1>2 DEF hdrVars
    <3> QED BY <1>1, <1>12, <3>1, <3>2, <3>3 DEF CallsSound
  <2> QED BY <2>1, <2>2 DEF CallsSound
<1>15. LinksSound'
  BY <1>2, <1>7, EngineAssumption DEF LinksSound
<1>16. TypeOK'
  <2>1. live' \subseteq Pdus /\ freed' \subseteq Pdus
    BY <1>1, <1>2, <1>6 DEF TypeOK
  <2>2. partial' \in BOOLEAN
    BY <1>2
  <2>3. faults' \subseteq {"use_after_free", "double_free"} \X Pdus
    BY <1>1, <1>2 DEF TypeOK
  <2> QED BY <1>1, <1>2, <1>7, <1>9, <1>13, <2>1, <2>2, <2>3
          DEF TypeOK, hdrVars, peerVars
<1>17. RecvSound' /\ SweepSound'
  BY <1>1, <1>2 DEF RecvSound, SweepSound
<1>18. MemorySafe'
  <2>1. pdu \in freed => pdu \in cancelled
    BY <1>1, <1>5 DEF TypeOK, ChainsSound
  <2>2. cancelled' = cancelled
    BY <1>2
  <2>3. CASE pdu \in freed
    <3>1. faults' = {<<"use_after_free", pdu>>}
      BY <1>2, <2>3
    <3> QED BY <2>1, <2>2, <2>3, <3>1 DEF MemorySafe
  <2>4. CASE pdu \notin freed
    <3>1. faults' = {}
      BY <1>2, <2>4
    <3> QED BY <3>1 DEF MemorySafe
  <2> QED BY <2>3, <2>4
<1> QED BY <1>11, <1>14, <1>15, <1>16, <1>17, <1>18 DEF IInv

-----------------------------------------------------------------------------
(* Every step keeps IInv. *)
LEMMA NextIInv ==
    ASSUME IInv, [Next]_vars
    PROVE  IInv'
<1>1. CASE Application
  <2>1. ASSUME NEW p \in Pdus, NEW c \in Charges, AllocatePdu(p, c) PROVE IInv'
    BY <2>1, AllocateIInv
  <2>2. ASSUME NEW h \in Pdus, NEW q \in Pdus, AddCompoundPdu(h, q) PROVE IInv'
    BY <2>2, AddCompoundIInv
  <2>3. ASSUME NEW h \in Pdus, QueuePdu(h) PROVE IInv'
    BY <2>3, QueueIInv
  <2>4. ASSUME NEW p \in Pdus, Cancel(p) PROVE IInv'
    BY <2>4, CancelIInv
  <2>5. ASSUME NEW p \in Pdus, FreeCalled(p) PROVE IInv'
    BY <2>5, FreeCalledIInv
  <2>6. ASSUME NEW p \in Pdus, FreeAborted(p) PROVE IInv'
    <3>1. /\ faults' = {<<"double_free", p>>} /\ p \in CallerFrees
          /\ calls[p] = <<"IO_TIMEOUT">>
          /\ UNCHANGED <<pduVars, hdrVars, queueVars, recvVars, ctxVars, sweep, now,
                         peerVars, desync, calls, cancelled>>
      BY <2>6 DEF FreeAborted, AppRuns, Active
    <3>5. faults' \subseteq {"use_after_free", "double_free"} \X Pdus
      BY <3>1
    <3>2. TypeOK'
      BY <3>1, <3>5 DEF IInv, TypeOK, pduVars, hdrVars, queueVars, recvVars, ctxVars, peerVars
    <3>3. ChainsSound' /\ CallsSound' /\ LinksSound' /\ RecvSound' /\ SweepSound'
      BY <3>1 DEF IInv, ChainsSound, CallsSound, LinksSound, Awaits, RecvSound,
         SweepSound, pduVars, hdrVars, queueVars, recvVars, ctxVars
    <3>4. MemorySafe'
      BY <3>1 DEF MemorySafe
    <3> QED BY <3>2, <3>3, <3>4 DEF IInv
  <2> QED BY <1>1, <2>1, <2>2, <2>3, <2>4, <2>5, <2>6 DEF Application
<1>2. CASE Service
  <2>1. ASSUME NEW f \in Frames(owed), RecvSpl(f) PROVE IInv'
    BY <2>1, RecvSplIInv
  <2> QED BY <1>2, <2>1, WriteToSocketIInv, RecvHeaderIInv, RecvDiscardIInv,
             RecvBodyIInv, ServiceFailsIInv, SweepBeginIInv, SweepStepIInv,
             TickIInv DEF Service
<1>3. CASE DestroyContext
  BY <1>3, DestroyIInv
<1>4. CASE UNCHANGED vars
  <2>1. UNCHANGED <<pduVars, hdrVars, queueVars, recvVars, ctxVars, now,
                    peerVars, desync, histVars>> /\ sweep' = sweep
    BY <1>4 DEF vars
  <2>2. SweepSound'
    BY <2>1 DEF IInv, SweepSound, queueVars, histVars
  <2>3. sweep' \in [phase : {"idle", "out", "wait"},
                    next : Pdus \cup {NoPdu}, cb : BOOLEAN]
    BY <2>1 DEF IInv, TypeOK
  <2> QED BY <2>1, <2>2, <2>3, SweepOnly
<1> QED BY <1>1, <1>2, <1>3, <1>4 DEF Next

(* The inductive invariant holds in every state of the engine.             *)
THEOREM Invariance == Spec => []IInv
<1>1. IInv /\ [Next]_vars => IInv'
  BY NextIInv
<1> QED BY <1>1, InitIInv, PTL DEF Spec

-----------------------------------------------------------------------------
(* Every variable of the engine has its type; in particular the credit     *)
(* count never goes below zero.                                            *)
THEOREM TypeCorrect == Spec => []TypeOK
<1>1. IInv => TypeOK
  BY DEF IInv
<1> QED BY <1>1, Invariance, PTL

(* No request is called back twice, or after it was cancelled.             *)
THEOREM CalledOnce == Spec => []CallbackOnce
<1>1. IInv => CallbackOnce
  BY DEF IInv, CallsSound, CallbackOnce
<1> QED BY <1>1, Invariance, PTL

(* Whatever the application does with the PDUs it was handed, the engine   *)
(* touches no freed PDU but one the application freed: not in the receive  *)
(* path, which keeps smb2->pdu across returns to the event loop, not in    *)
(* the timeout sweep, which keeps a next pointer across a callback, and    *)
(* not in the teardown.                                                    *)
THEOREM NoFreedAccess == Spec => []MemorySafe
<1>1. IInv => MemorySafe
  BY DEF IInv
<1> QED BY <1>1, Invariance, PTL

(* Between two replies nothing is being received.                          *)
THEOREM NothingLeftOver == Spec => []NoLeftover
<1>1. IInv => NoLeftover
  BY DEF IInv, RecvSound, NoLeftover, Active
<1> QED BY <1>1, Invariance, PTL

(* The engine holds every PDU in one place only, and holds none that was   *)
(* freed or called back.                                                   *)
THEOREM QueuesStaySound == Spec => []QueuesSound
<1>1. ASSUME IInv PROVE QueuesSound
  <2>1. TypeOK /\ ChainsSound /\ CallsSound /\ LinksSound
    BY <1>1 DEF IInv
  <2>2. Range(outqueue) \subseteq Pdus /\ Range(waitqueue) \subseteq Pdus
    BY <2>1, ChainFacts
  <2> DEFINE U == UNION {Range(chain[h]) : h \in Range(outqueue)}
  <2>3. \A x : x \in U <=> \E h \in Range(outqueue) : x \in Range(chain[h])
    OBVIOUS
  <2>4. Held = U \cup Range(waitqueue) \cup ({pdu} \cap Pdus)
    BY Zenon DEF Held
  <2> HIDE DEF U
  <2>5. ASSUME NEW x \in Held
        PROVE  calls[x] = <<>> /\ (x \in live \/ (x = pdu /\ x \in cancelled))
    <3>1. CASE x \in U
      <4>1. PICK h \in Range(outqueue) : x \in Range(chain[h])
        BY <2>3, <3>1
      <4> QED BY <2>1, <2>2, <4>1 DEF ChainsSound, CallsSound, LinksSound, Awaits
    <3>2. CASE x = pdu /\ x \in cancelled
      BY <1>1, <3>2, CancelledGone
    <3>3. CASE x \in Range(waitqueue) \cup (({pdu} \cap Pdus) \ cancelled)
      <4>1. x \in Pdus /\ Awaits(x)
        BY <2>1, <2>2, <3>3 DEF LinksSound
      <4> QED BY <2>1, <4>1, ChainFacts DEF Awaits
    <3> QED BY <2>4, <3>1, <3>2, <3>3
  <2>6. ASSUME NEW h \in Range(outqueue)
        PROVE  /\ Range(chain[h]) \cap Range(waitqueue) = {}
               /\ pdu \notin Range(chain[h])
               /\ \A g \in Range(outqueue) \ {h} :
                      Range(chain[h]) \cap Range(chain[g]) = {}
    <3>1. h \in Pdus /\ Range(chain[h]) \subseteq Pdus
      BY <2>1, <2>2, ChainFacts
    <3>2. \A p \in Pdus : p \in Range(chain[h]) /\ Awaits(p) => p = h
      BY <2>1, <3>1, ChainFacts DEF Awaits
    <3>3. Range(chain[h]) \cap Range(waitqueue) = {}
      BY <2>1, <2>2, <3>2 DEF LinksSound
    <3>4. pdu \notin Range(chain[h])
      BY <1>1, <2>1, <3>1, <3>2, CancelledGone DEF LinksSound, ChainsSound
    <3> QED BY <2>1, <2>2, <3>1, <3>3, <3>4 DEF ChainsSound
  <2>7. pdu \in Range(waitqueue) => ctx = "failed"
    BY <1>1, <2>1, <2>2, CancelledGone DEF LinksSound
  <2> QED BY <2>1, <2>5, <2>6, <2>7 DEF QueuesSound, ChainsSound, LinksSound
<1>2. IInv => QueuesSound
  BY <1>1
<1> QED BY <1>2, Invariance, PTL

-----------------------------------------------------------------------------
(* Message ids. *)

(* Only a PDU that was allocated has a message id; it is below the next    *)
(* one to be given, with all the ids its charge takes; and the ids of two  *)
(* PDUs do not overlap.                                                    *)
MidsOrdered ==
    /\ \A p \in Pdus : p \notin live \cup freed => mid[p] = NoMid
    /\ \A p \in Pdus : mid[p] # NoMid =>
           mid[p] \in Nat /\ mid[p] + MidStep(p) <= message_id
    /\ \A p, q \in Pdus : p # q /\ mid[p] # NoMid /\ mid[q] # NoMid =>
           /\ mid[p] # mid[q]
           /\ mid[p] < mid[q] => mid[p] + MidStep(p) <= mid[q]

(* Numbers that grow by at least one from each to the next. *)
LEMMA Ascending ==
    ASSUME NEW n \in Nat, NEW ms \in [1..n -> Nat], NEW st \in [1..n -> Nat \ {0}],
           \A i \in 1..(n - 1) : ms[i + 1] = ms[i] + st[i]
    PROVE  \A i, j \in 1..n : i < j => ms[i] + st[i] <= ms[j]
<1> SUFFICES ASSUME NEW i \in 1..n, NEW l \in 1..n, i < l, ~(ms[i] + st[i] <= ms[l])
             PROVE  FALSE
  OBVIOUS
<1> DEFINE T == {j \in 1..n : i < j /\ ~(ms[i] + st[i] <= ms[j])}
<1>1. T \in SUBSET Nat /\ T # {}
  <2>1. l \in T
    OBVIOUS
  <2>2. \A x \in T : x \in Nat
    OBVIOUS
  <2> QED BY <2>1, <2>2
<1> HIDE DEF T
<1>2. PICK j \in T : \A y \in T : j <= y
  BY <1>1, LeastNat
<1>3. j \in 1..n /\ i < j /\ ~(ms[i] + st[i] <= ms[j])
  BY <1>2 DEF T
<1>4. PICK k : k = j - 1
  OBVIOUS
<1>5. k \in 1..(n - 1) /\ k \in 1..n /\ k + 1 = j /\ k < j /\ i <= k
  BY <1>3, <1>4
<1>6. ms[j] = ms[k] + st[k] /\ ms[k] \in Nat /\ st[k] \in Nat /\ ms[i] \in Nat /\ st[i] \in Nat
  BY <1>5
<1>7. CASE i = k
  BY <1>3, <1>6, <1>7
<1>8. CASE i < k
  <2>1. k \notin T
    BY <1>2, <1>5
  <2>2. ms[i] + st[i] <= ms[k]
    BY <1>5, <1>8, <2>1 DEF T
  <2> QED BY <1>3, <1>6, <2>2
<1> QED BY <1>5, <1>7, <1>8

(* The ids that smb2_queue_pdu gives to a chain: new, in the order of the  *)
(* chain, each with room for the charge of its PDU; and each but the head  *)
(* remembers the one before it.                                            *)
LEMMA QueueNumbers ==
    ASSUME IInv, NEW h \in Pdus, QueuePdu(h)
    PROVE  /\ chain[h] # <<>> /\ h \in live /\ h \in Range(chain[h])
           /\ Range(chain[h]) \subseteq Pdus
           /\ charge' = charge
           /\ message_id' \in Nat /\ message_id <= message_id'
           /\ \A p \in Range(chain[h]) :
                  /\ mid[p] = NoMid /\ mid'[p] \in Nat
                  /\ message_id <= mid'[p]
                  /\ mid'[p] + MidStep(p) <= message_id'
           /\ \A p, q \in Range(chain[h]) : p # q =>
                  /\ mid'[p] # mid'[q]
                  /\ mid'[p] < mid'[q] => mid'[p] + MidStep(p) <= mid'[q]
           /\ \A p \in Range(chain[h]) : p # h =>
                  \E q \in Range(chain[h]) : prevMid'[p] = mid'[q] /\ mid'[q] < mid'[p]
           /\ prevMid'[h] = prevMid[h]
           /\ \A p \in Pdus \ Range(chain[h]) :
                  mid'[p] = mid[p] /\ prevMid'[p] = prevMid[p]
<1>1. TypeOK /\ ChainsSound /\ CallsSound
  BY DEF IInv
<1>2. chain[h] # <<>> /\ mid[h] = NoMid /\ charge' = charge
  BY DEF QueuePdu, Unqueued
<1> DEFINE c == chain[h]
           n == Len(c)
<1>3. c = chain[h] /\ n = Len(c)
  OBVIOUS
<1>5. /\ c \in Seq(Pdus) /\ n \in Nat /\ 1 <= n /\ DOMAIN c = 1..n
      /\ Range(c) \subseteq Pdus /\ h \in Range(c) /\ h \in live /\ c[1] = h
      /\ IsInjective(c)
  <2>1. chain[h][1] = h /\ IsInjective(chain[h])
    BY <1>1, <1>2 DEF ChainsSound
  <2> QED BY <1>1, <1>2, <1>3, <2>1, ChainFacts
<1>6. PICK ms \in [1..n -> 0..MaxMid] :
          /\ MidsFrom(c, ms)
          /\ message_id' = ms[n] + MidStep(Last(c))
          /\ mid' = [p \in Pdus |-> IF p \in Range(c)
                                    THEN ms[Position(c, p)] ELSE mid[p]]
          /\ prevMid' = [p \in Pdus |-> IF p \in Range(c) /\ p # h
                                        THEN ms[Position(c, p) - 1]
                                        ELSE prevMid[p]]
  BY DEF QueuePdu
<1> HIDE DEF c, n
<1>7. \A p \in Range(c) : Position(c, p) \in 1..n /\ c[Position(c, p)] = p
  <2>1. \A p \in Range(c) : \E i \in DOMAIN c : c[i] = p
    BY DEF Range
  <2> QED BY <1>5, <2>1 DEF Position
<1>8. \A i \in 1..n : c[i] \in Range(c)
  BY <1>5 DEF Range
<1>9. \A i \in 1..n : Position(c, c[i]) = i
  BY <1>5, <1>7, <1>8 DEF IsInjective
<1>10. PICK st : st = [i \in 1..n |-> MidStep(c[i])]
  OBVIOUS
<1>11. \A p \in Pdus : MidStep(p) \in Nat \ {0}
  BY <1>1 DEF MidStep, TypeOK
<1>12. st \in [1..n -> Nat \ {0}] /\ \A i \in 1..n : st[i] = MidStep(c[i])
  BY <1>5, <1>8, <1>10, <1>11
<1>13. ms \in [1..n -> Nat] /\ ms[1] = message_id /\ message_id \in Nat
  BY <1>1, <1>6 DEF MidsFrom, TypeOK
<1>14. \A i \in 1..(n - 1) : ms[i + 1] = ms[i] + st[i]
  <2>1. \A i \in 1..(n - 1) : ms[i + 1] = ms[i] + MidStep(c[i])
    BY <1>3, <1>6 DEF MidsFrom
  <2>2. \A i \in 1..(n - 1) : i \in 1..n
    BY <1>5
  <2> QED BY <1>12, <2>1, <2>2
<1>15. \A i, j \in 1..n : i < j => ms[i] + st[i] <= ms[j]
  BY <1>5, <1>12, <1>13, <1>14, Ascending
<1>16. message_id' = ms[n] + st[n] /\ n \in 1..n
  BY <1>5, <1>6, <1>12 DEF Last
<1>17. \A i \in 1..n : message_id <= ms[i] /\ ms[i] + st[i] <= message_id'
  <2> SUFFICES ASSUME NEW i \in 1..n
               PROVE  message_id <= ms[i] /\ ms[i] + st[i] <= message_id'
    OBVIOUS
  <2>1. ms[i] \in Nat /\ st[i] \in Nat /\ ms[n] \in Nat /\ st[n] \in Nat /\ ms[1] \in Nat
        /\ st[1] \in Nat /\ 1 \in 1..n
    BY <1>5, <1>12, <1>13
  <2>2. message_id <= ms[i]
    <3>1. CASE i = 1
      BY <1>13, <3>1
    <3>2. CASE 1 < i
      BY <1>13, <1>15, <2>1, <3>2
    <3> QED BY <3>1, <3>2
  <2>3. ms[i] + st[i] <= message_id'
    <3>1. CASE i = n
      BY <1>16, <2>1, <3>1
    <3>2. CASE i < n
      <4>1. ms[i] + st[i] <= ms[n]
        BY <1>15, <1>16, <3>2
      <4> QED BY <1>16, <2>1, <4>1
    <3> QED BY <1>5, <3>1, <3>2
  <2> QED BY <2>2, <2>3
<1>18. \A p \in Range(c) : \E i \in 1..n : /\ p = c[i] /\ mid'[p] = ms[i] /\ MidStep(p) = st[i]
                                           /\ p # h => i # 1 /\ prevMid'[p] = ms[i - 1]
  <2> SUFFICES ASSUME NEW p \in Range(c)
               PROVE  \E i \in 1..n : /\ p = c[i] /\ mid'[p] = ms[i] /\ MidStep(p) = st[i]
                                      /\ p # h => i # 1 /\ prevMid'[p] = ms[i - 1]
    OBVIOUS
  <2>1. PICK i \in 1..n : i = Position(c, p) /\ p = c[i] /\ p \in Pdus
    BY <1>5, <1>7
  <2>2. mid'[p] = ms[i] /\ (p # h => prevMid'[p] = ms[i - 1])
    BY <1>6, <2>1
  <2>3. MidStep(p) = st[i]
    BY <1>12, <2>1
  <2> QED BY <1>5, <2>1, <2>2, <2>3
<1>19. \A i \in 1..n : mid'[c[i]] = ms[i]
  <2> SUFFICES ASSUME NEW i \in 1..n PROVE mid'[c[i]] = ms[i]
    OBVIOUS
  <2>1. c[i] \in Range(c) /\ c[i] \in Pdus /\ Position(c, c[i]) = i
    BY <1>5, <1>8, <1>9
  <2> QED BY <1>6, <2>1
<1>20. \A p \in Range(c) : /\ mid[p] = NoMid /\ mid'[p] \in Nat
                           /\ message_id <= mid'[p]
                           /\ mid'[p] + MidStep(p) <= message_id'
  <2>1. \A p \in Range(c) : mid[p] = NoMid
    BY <1>1, <1>2, <1>3 DEF CallsSound
  <2> QED BY <1>13, <1>17, <1>18, <2>1
<1>21. \A p, q \in Range(c) : p # q =>
            /\ mid'[p] # mid'[q]
            /\ mid'[p] < mid'[q] => mid'[p] + MidStep(p) <= mid'[q]
  <2> SUFFICES ASSUME NEW p \in Range(c), NEW q \in Range(c), p # q
               PROVE  /\ mid'[p] # mid'[q]
                      /\ mid'[p] < mid'[q] => mid'[p] + MidStep(p) <= mid'[q]
    OBVIOUS
  <2>1. PICK i \in 1..n : p = c[i] /\ mid'[p] = ms[i] /\ MidStep(p) = st[i]
    BY <1>18
  <2>2. PICK j \in 1..n : q = c[j] /\ mid'[q] = ms[j] /\ MidStep(q) = st[j]
    BY <1>18
  <2>3. i # j /\ ms[i] \in Nat /\ ms[j] \in Nat /\ st[i] \in Nat \ {0} /\ st[j] \in Nat \ {0}
    BY <1>12, <1>13, <2>1, <2>2
  <2>4. CASE i < j
    <3>1. ms[i] + st[i] <= ms[j]
      BY <1>15, <2>4
    <3> QED BY <2>1, <2>2, <2>3, <3>1
  <2>5. CASE j < i
    <3>1. ms[j] + st[j] <= ms[i]
      BY <1>15, <2>5
    <3> QED BY <2>1, <2>2, <2>3, <3>1
  <2> QED BY <2>3, <2>4, <2>5
<1>22. \A p \in Range(c) : p # h =>
            \E q \in Range(c) : prevMid'[p] = mid'[q] /\ mid'[q] < mid'[p]
  <2> SUFFICES ASSUME NEW p \in Range(c), p # h
               PROVE  \E q \in Range(c) : prevMid'[p] = mid'[q] /\ mid'[q] < mid'[p]
    OBVIOUS
  <2>1. PICK i \in 1..n : mid'[p] = ms[i] /\ i # 1 /\ prevMid'[p] = ms[i - 1]
    BY <1>18
  <2>2. PICK k \in 1..n : k = i - 1 /\ k < i
    BY <1>5, <2>1
  <2>3. ms[k] + st[k] <= ms[i] /\ ms[k] \in Nat /\ ms[i] \in Nat /\ st[k] \in Nat \ {0}
    BY <1>12, <1>13, <1>15, <2>2
  <2>4. c[k] \in Range(c) /\ mid'[c[k]] = ms[k] /\ prevMid'[p] = ms[k]
    BY <1>8, <1>19, <2>1, <2>2
  <2> QED BY <2>1, <2>3, <2>4
<1>23. prevMid'[h] = prevMid[h] /\ \A p \in Pdus \ Range(c) :
            mid'[p] = mid[p] /\ prevMid'[p] = prevMid[p]
  BY <1>6
<1>24. message_id' \in Nat /\ message_id <= message_id'
  <2>1. ms[n] \in Nat /\ st[n] \in Nat /\ message_id <= ms[n]
    BY <1>12, <1>13, <1>16, <1>17
  <2> QED BY <1>13, <1>16, <2>1
<1> QED BY <1>2, <1>3, <1>5, <1>20, <1>21, <1>22, <1>23, <1>24

(* Only smb2_allocate_pdu and smb2_queue_pdu write the headers. *)
LEMMA MidsKept ==
    ASSUME MidsOrdered, UNCHANGED <<mid, charge, message_id>>,
           live \cup freed \subseteq live' \cup freed'
    PROVE  MidsOrdered'
<1>1. \A p : MidStep(p)' = MidStep(p)
  BY DEF MidStep
<1> QED BY <1>1 DEF MidsOrdered

(* A PDU that has just been allocated has no id yet.                       *)
LEMMA AllocateMids ==
    ASSUME IInv, MidsOrdered, NEW p \in Pdus, NEW c \in Charges, AllocatePdu(p, c)
    PROVE  MidsOrdered'
<1>1. /\ p \notin live \cup freed /\ live' = live \cup {p}
      /\ charge' = [charge EXCEPT ![p] = HeaderCharge(p, c)]
      /\ UNCHANGED <<freed, mid, message_id>>
  BY DEF AllocatePdu, ctxVars
<1>2. charge \in [Pdus -> Nat] /\ mid[p] = NoMid
  BY <1>1 DEF IInv, TypeOK, MidsOrdered
<1>3. \A x \in Pdus \ {p} : charge'[x] = charge[x]
  BY <1>1, <1>2
<1>4. \A x \in Pdus \ {p} : MidStep(x)' = MidStep(x)
  BY <1>3 DEF MidStep
<1> QED BY <1>1, <1>2, <1>4 DEF MidsOrdered

(* The ids of a chain that is queued are above all that were given.        *)
LEMMA QueueMids ==
    ASSUME IInv, MidsOrdered, NEW h \in Pdus, QueuePdu(h)
    PROVE  MidsOrdered'
<1> DEFINE C == Range(chain[h])
<1>1. /\ charge' = charge /\ message_id' \in Nat /\ message_id <= message_id'
      /\ \A p \in C : /\ mid'[p] \in Nat /\ message_id <= mid'[p]
                      /\ mid'[p] + MidStep(p) <= message_id'
      /\ \A p, q \in C : p # q =>
             /\ mid'[p] # mid'[q]
             /\ mid'[p] < mid'[q] => mid'[p] + MidStep(p) <= mid'[q]
      /\ \A p \in Pdus \ C : mid'[p] = mid[p]
  BY QueueNumbers
<1>2. TypeOK /\ ChainsSound /\ live' = live /\ freed' = freed
  BY DEF IInv, QueuePdu
<1>3. C \subseteq live
  BY <1>2 DEF ChainsSound
<1> HIDE DEF C
<1>4. \A p \in Pdus : MidStep(p) \in Nat \ {0} /\ MidStep(p)' = MidStep(p)
  BY <1>1, <1>2 DEF MidStep, TypeOK
<1>5. message_id \in Nat
  BY <1>2 DEF TypeOK
<1>6. ASSUME NEW p \in Pdus, mid'[p] # NoMid
      PROVE  mid'[p] \in Nat /\ mid'[p] + MidStep(p) <= message_id'
  <2>1. CASE p \in C
    BY <1>1, <2>1
  <2>2. CASE p \notin C
    <3>1. mid'[p] \in Nat /\ mid'[p] + MidStep(p) <= message_id
      BY <1>1, <1>6, <2>2 DEF MidsOrdered
    <3>2. mid'[p] + MidStep(p) \in Nat
      BY <1>4, <3>1
    <3> QED BY <1>1, <1>5, <3>1, <3>2
  <2> QED BY <2>1, <2>2
<1>7. ASSUME NEW p \in Pdus, NEW q \in Pdus, p # q, mid'[p] # NoMid, mid'[q] # NoMid
      PROVE  /\ mid'[p] # mid'[q]
             /\ mid'[p] < mid'[q] => mid'[p] + MidStep(p) <= mid'[q]
  <2>1. /\ mid'[p] \in Nat /\ mid'[q] \in Nat /\ MidStep(p) \in Nat \ {0}
        /\ MidStep(q) \in Nat \ {0}
    BY <1>4, <1>6, <1>7
  <2>2. CASE p \in C /\ q \in C
    BY <1>1, <1>7, <2>2
  <2>3. CASE p \in C /\ q \notin C
    <3>1. mid'[q] + MidStep(q) <= message_id /\ message_id <= mid'[p]
      BY <1>1, <1>7, <2>3 DEF MidsOrdered
    <3> QED BY <1>5, <2>1, <3>1
  <2>4. CASE p \notin C /\ q \in C
    <3>1. mid'[p] + MidStep(p) <= message_id /\ message_id <= mid'[q]
      BY <1>1, <1>7, <2>4 DEF MidsOrdered
    <3> QED BY <1>5, <2>1, <3>1
  <2>5. CASE p \notin C /\ q \notin C
    <3>1. mid'[p] = mid[p] /\ mid'[q] = mid[q]
      BY <1>1, <2>5
    <3> QED BY <1>7, <3>1 DEF MidsOrdered
  <2> QED BY <2>2, <2>3, <2>4, <2>5
<1>8. \A p \in Pdus : p \notin live' \cup freed' => mid'[p] = NoMid
  BY <1>1, <1>2, <1>3 DEF MidsOrdered
<1> QED BY <1>4, <1>6, <1>7, <1>8 DEF MidsOrdered

(* Freeing keeps the account of what was allocated. *)
LEMMA FreeAccount ==
    ASSUME NEW p \in Pdus, FreePdu(p)
    PROVE  live \cup freed \subseteq live' \cup freed'
  BY DEF FreePdu

(* Every step keeps the message ids apart. *)
LEMMA NextMids ==
    ASSUME IInv, MidsOrdered, [Next]_vars
    PROVE  MidsOrdered'
<1>1. ASSUME NEW p \in Pdus, NEW c \in Charges, AllocatePdu(p, c) PROVE MidsOrdered'
  BY <1>1, AllocateMids
<1>2. ASSUME NEW h \in Pdus, QueuePdu(h) PROVE MidsOrdered'
  BY <1>2, QueueMids
<1>3. ASSUME NEW h \in Pdus, NEW q \in Pdus, AddCompoundPdu(h, q) PROVE MidsOrdered'
  BY <1>3, MidsKept DEF AddCompoundPdu, hdrVars, ctxVars
<1>4. ASSUME NEW p \in Pdus, Cancel(p) \/ FreeCalled(p) PROVE MidsOrdered'
  BY <1>4, MidsKept, FreeAccount DEF Cancel, FreeCalled, hdrVars, ctxVars
<1>5. ASSUME NEW p \in Pdus, FreeAborted(p) PROVE MidsOrdered'
  BY <1>5, MidsKept DEF FreeAborted, pduVars, hdrVars, ctxVars
<1>6. ASSUME NEW f, RecvSpl(f) PROVE MidsOrdered'
  BY <1>6, MidsKept DEF RecvSpl, pduVars, hdrVars, ctxVars
<1>7. CASE RecvBody
  <2>1. UNCHANGED <<mid, charge, message_id>>
    BY <1>7 DEF RecvBody, hdrVars
  <2>2. UNCHANGED pduVars \/ (pdu \in Pdus /\ FreePdu(pdu))
    BY <1>7 DEF RecvBody
  <2>3. live \cup freed \subseteq live' \cup freed'
    BY <2>2, FreeAccount DEF pduVars
  <2> QED BY <2>1, <2>3, MidsKept
<1>8. CASE SweepStep
  <2>1. UNCHANGED <<mid, charge, message_id>>
    BY <1>8 DEF SweepStep, hdrVars, ctxVars
  <2>2. UNCHANGED pduVars \/ \E p \in Pdus : FreePdu(p)
    <3>1. UNCHANGED pduVars \/ SweepQueue(outqueue) \/ SweepQueue(waitqueue)
      BY <1>8 DEF SweepStep
    <3>2. ASSUME NEW q \in Seq(Pdus), SweepQueue(q)
          PROVE  UNCHANGED pduVars \/ \E p \in Pdus : FreePdu(p)
      <4>1. UNCHANGED pduVars \/ \E i \in DOMAIN q : FreePdu(q[i])
        BY <3>2 DEF SweepQueue
      <4> QED BY <4>1
    <3> QED BY <3>1, <3>2 DEF IInv, TypeOK
  <2>3. live \cup freed \subseteq live' \cup freed'
    BY <2>2, FreeAccount DEF pduVars
  <2> QED BY <2>1, <2>3, MidsKept
<1>9. CASE DestroyContext
  <2>1. UNCHANGED <<mid, charge, message_id>>
    BY <1>9 DEF DestroyContext, hdrVars
  <2>2. PICK gone : live' = live \ gone /\ freed' = freed \cup gone
    BY <1>9 DEF DestroyContext
  <2> QED BY <2>1, <2>2, MidsKept
<1>10. CASE WriteToSocket \/ RecvHeader \/ RecvDiscard \/ ServiceFails
            \/ SweepBegin \/ Tick \/ UNCHANGED vars
  <2>1. UNCHANGED <<mid, charge, message_id, live, freed>>
    BY <1>10 DEF WriteToSocket, RecvHeader, RecvDiscard, ServiceFails, SweepBegin, Tick,
                 vars, pduVars, hdrVars, ctxVars
  <2> QED BY <2>1, MidsKept
<1> QED BY <1>1, <1>2, <1>3, <1>4, <1>5, <1>6, <1>7, <1>8, <1>9, <1>10
        DEF Next, Application, Service

-----------------------------------------------------------------------------
(* Compounds. *)

(* p was queued in a compound, right behind q.                             *)
Behind(p, q) == prevMid[p] # 0 /\ mid[q] = prevMid[p]

(* x is still to be written, alone or in a chain.                          *)
Unwritten(x) == \E h \in Range(outqueue) : x \in Range(chain[h])

PrevSound ==
    \A p \in Pdus : prevMid[p] # 0 => mid[p] # NoMid /\ prevMid[p] < mid[p]

(* A chain is written as a whole: a request that has been written has none *)
(* before it in its compound that has not.                                 *)
Together ==
    \A p, q \in Pdus : \A h \in Range(outqueue) :
        Behind(p, q) /\ q \in Range(chain[h]) => p \in Range(chain[h])

(* While a reply is being read the request before it does not wait.        *)
ReadInOrder ==
    \A p, q \in Pdus :
        p = pdu /\ recv_state = "BODY" /\ Behind(p, q) => q \notin Range(waitqueue)

OrderInv == PrevSound /\ Together /\ ReadInOrder /\ CompoundInOrder

(* What the engine holds, in any state. *)
LEMMA HeldIn ==
    ASSUME NEW oq, NEW ch, NEW wq, NEW pd, NEW H,
           H = (UNION {Range(ch[h]) : h \in Range(oq)}) \cup Range(wq) \cup ({pd} \cap Pdus)
    PROVE  \A x : x \in H <=> \/ \E h \in Range(oq) : x \in Range(ch[h])
                              \/ x \in Range(wq)
                              \/ x = pd /\ x \in Pdus
<1> DEFINE U == UNION {Range(ch[h]) : h \in Range(oq)}
<1>1. \A x : x \in U <=> \E h \in Range(oq) : x \in Range(ch[h])
  OBVIOUS
<1>2. H = U \cup Range(wq) \cup ({pd} \cap Pdus)
  BY Zenon
<1> HIDE DEF U
<1> QED BY <1>1, <1>2

(* What it holds now and after the step.                                   *)
LEMMA HeldFacts ==
    /\ \A x : x \in Held <=> Unwritten(x) \/ x \in Range(waitqueue) \/ (x = pdu /\ x \in Pdus)
    /\ \A x : x \in Held' <=> Unwritten(x)' \/ x \in Range(waitqueue') \/ (x = pdu' /\ x \in Pdus)
<1>1. Held = (UNION {Range(chain[h]) : h \in Range(outqueue)}) \cup Range(waitqueue)
             \cup ({pdu} \cap Pdus)
  BY DEF Held
<1>2. Held' = (UNION {Range(chain'[h]) : h \in Range(outqueue')}) \cup Range(waitqueue')
              \cup ({pdu'} \cap Pdus)
  BY DEF Held
<1>3. \A x : x \in Held <=> Unwritten(x) \/ x \in Range(waitqueue) \/ (x = pdu /\ x \in Pdus)
  BY <1>1, HeldIn DEF Unwritten
<1>4. \A x : x \in Held' <=> Unwritten(x)' \/ x \in Range(waitqueue') \/ (x = pdu' /\ x \in Pdus)
  BY <1>2, HeldIn DEF Unwritten
<1> QED BY <1>3, <1>4

(* The request whose reply is being read is in no chain to be written.     *)
LEMMA ReadIsWritten ==
    ASSUME IInv, pdu \in Pdus, NEW h \in Range(outqueue)
    PROVE  pdu \notin Range(chain[h])
<1>1. TypeOK /\ ChainsSound /\ LinksSound
  BY DEF IInv
<1>2. h \in Pdus /\ Range(chain[h]) \subseteq live
  BY <1>1, ChainFacts DEF ChainsSound
<1>3. CASE pdu \in cancelled
  BY <1>2, <1>3, CancelledGone
<1>4. CASE pdu \notin cancelled
  <2>1. Awaits(pdu) /\ pdu \notin Range(outqueue)
    BY <1>1, <1>4 DEF LinksSound
  <2> QED BY <1>1, <1>2, <2>1, ChainFacts DEF Awaits
<1> QED BY <1>3, <1>4

(* A step that numbers no request keeps the order, if what it leaves in    *)
(* the queues and smb2->pdu was there before, a reply is begun only for a  *)
(* request with none before it waiting, and only the request whose reply   *)
(* was read is called back with it.                                        *)
LEMMA OrderKept ==
    ASSUME IInv, OrderInv, UNCHANGED <<mid, prevMid>>,
           \A h \in Range(outqueue') :
               h \in Range(outqueue) /\ Range(chain'[h]) = Range(chain[h]),
           \A x \in Range(waitqueue') : x \in Range(waitqueue) \/ Unwritten(x),
           pdu' \in Pdus => pdu' = pdu \/ pdu' \in Range(waitqueue),
           (pdu' \in Pdus /\ recv_state' = "BODY") =>
               \/ pdu' = pdu /\ recv_state = "BODY"
               \/ /\ \A q \in Pdus : Behind(pdu', q) => q \notin Range(waitqueue)
                  /\ Range(waitqueue') \subseteq Range(waitqueue),
           \A p \in Pdus : calls'[p] = <<"REPLY">> =>
               calls[p] = <<"REPLY">> \/ (p = pdu /\ recv_state = "BODY" /\ pdu' = NoPdu)
    PROVE  OrderInv'
<1>1. \A p, q : Behind(p, q)' <=> Behind(p, q)
  BY DEF Behind
<1>2. PrevSound'
  BY DEF OrderInv, PrevSound
<1>3. Together'
  BY <1>1 DEF OrderInv, Together
<1>4. \A x : Unwritten(x)' => Unwritten(x)
  BY DEF Unwritten
<1>5. \A q \in Pdus : pdu \in Pdus /\ Behind(pdu, q) => ~Unwritten(q)
  BY ReadIsWritten DEF OrderInv, Together, Unwritten
<1>6. ReadInOrder'
  <2> SUFFICES ASSUME NEW q \in Pdus, pdu' \in Pdus, recv_state' = "BODY", Behind(pdu', q),
                      q \in Range(waitqueue')
               PROVE  FALSE
    BY <1>1 DEF ReadInOrder
  <2>1. CASE pdu' = pdu /\ recv_state = "BODY"
    BY <1>5, <2>1 DEF OrderInv, ReadInOrder
  <2>2. CASE q \notin Range(waitqueue) /\ Range(waitqueue') \subseteq Range(waitqueue)
    BY <2>2
  <2> QED BY <2>1, <2>2
<1>7. CompoundInOrder'
  <2> SUFFICES ASSUME NEW p \in Pdus, NEW q \in Pdus, calls'[p] = <<"REPLY">>, Behind(p, q),
                      q \in Held'
               PROVE  FALSE
    BY <1>1 DEF CompoundInOrder, Behind
  <2>1. Unwritten(q) \/ q \in Range(waitqueue) \/ (q = pdu /\ pdu' # NoPdu)
    BY <1>4, HeldFacts, EngineAssumption
  <2>2. CASE calls[p] = <<"REPLY">>
    <3>1. q \notin Held
      BY <2>2 DEF OrderInv, CompoundInOrder, Behind
    <3> QED BY <2>1, <3>1, HeldFacts
  <2>3. CASE p = pdu /\ recv_state = "BODY" /\ pdu' = NoPdu
    BY <1>5, <2>1, <2>3 DEF OrderInv, ReadInOrder
  <2> QED BY <2>2, <2>3
<1> QED BY <1>2, <1>3, <1>6, <1>7 DEF OrderInv

(* What a write leaves: the chain h is in outqueue, or in waitqueue as     *)
(* single requests.                                                        *)
Linked(h) == Range(outqueue') = Range(outqueue) \cup {h} /\ UNCHANGED <<chain, waitqueue>>

Moved(h) ==
    /\ Range(outqueue') = Range(outqueue) \ {h}
    /\ Range(waitqueue') = Range(waitqueue) \cup Range(chain[h])
    /\ \A g \in Pdus : chain'[g] = IF g \in Range(chain[h]) THEN <<g>> ELSE chain[g]

(* smb2_write_to_socket leaves one or the other. *)
LEMMA WriteEffect ==
    ASSUME IInv, NEW h \in Pdus, NEW q \in Seq(Pdus),
           Range(q) = Range(outqueue) \ {h}, WriteChain(h, q)
    PROVE  Linked(h) \/ Moved(h)
<1>1. TypeOK /\ ChainsSound
  BY DEF IInv
<1>2. CASE outqueue' = <<h>> \o q /\ UNCHANGED <<chain, waitqueue>>
  <2>1. <<h>> \in Seq(Pdus) /\ Range(<<h>>) = {h}
    BY SmallSeq
  <2>2. \A s, t \in Seq(Pdus) : Range(s \o t) = Range(s) \cup Range(t)
    BY ConcatSeq
  <2>3. Range(<<h>> \o q) = Range(<<h>>) \cup Range(q)
    BY <2>1, <2>2, Zenon
  <2>4. Range(outqueue') = Range(<<h>>) \cup Range(q)
    BY <1>2, <2>3, Zenon
  <2>5. Range(outqueue') = Range(outqueue) \cup {h}
    BY <2>1, <2>4
  <2> QED BY <1>2, <2>5 DEF Linked
<1>3. CASE /\ outqueue' = q
           /\ chain' = [p \in Pdus |-> IF p \in Range(chain[h]) THEN <<p>> ELSE chain[p]]
           /\ waitqueue' = waitqueue \o chain[h]
  <2>1. chain[h] \in Seq(Pdus) /\ waitqueue \in Seq(Pdus)
    BY <1>1 DEF TypeOK
  <2>2. Range(waitqueue') = Range(waitqueue) \cup Range(chain[h])
    BY <1>3, <2>1, ConcatSeq
  <2> QED BY <1>3, <2>2 DEF Moved
<1> QED BY <1>2, <1>3 DEF WriteChain

(* smb2_write_to_socket works on the head of outqueue. *)
LEMMA WriteToSocketEffect ==
    ASSUME IInv, WriteToSocket
    PROVE  \E h \in Range(outqueue) : h \in Pdus /\ (Linked(h) \/ Moved(h))
<1>1. outqueue \in Seq(Pdus) /\ IsInjective(outqueue) /\ outqueue # <<>>
  BY DEF IInv, TypeOK, LinksSound, WriteToSocket
<1>2. PICK h, q : h = Head(outqueue) /\ q = Tail(outqueue)
  OBVIOUS
<1>3. /\ h \in Pdus /\ h \in Range(outqueue) /\ q \in Seq(Pdus)
      /\ Range(q) = Range(outqueue) \ {h}
  BY <1>1, <1>2, TailSeq
<1>4. WriteChain(h, q)
  BY <1>2, Zenon DEF WriteToSocket
<1>5. Linked(h) \/ Moved(h)
  BY <1>3, <1>4, WriteEffect
<1> QED BY <1>3, <1>5

(* smb2_queue_pdu links the chain, and writes it if it is alone. *)
LEMMA QueueEffect ==
    ASSUME IInv, NEW h \in Pdus, QueuePdu(h)
    PROVE  Linked(h) \/ Moved(h)
<1>1. outqueue \in Seq(Pdus)
  BY DEF IInv, TypeOK
<1>2. CASE outqueue' = Append(outqueue, h) /\ UNCHANGED <<chain, waitqueue>>
  <2>1. Append(outqueue, h) = outqueue \o <<h>>
    BY <1>1, AppendIsConcat
  <2>2. <<h>> \in Seq(Pdus) /\ Range(<<h>>) = {h}
    BY SmallSeq
  <2>3. \A s, t \in Seq(Pdus) : Range(s \o t) = Range(s) \cup Range(t)
    BY ConcatSeq
  <2>4. Range(outqueue') = Range(outqueue) \cup Range(<<h>>)
    BY <1>1, <1>2, <2>1, <2>2, <2>3, Zenon
  <2>5. Range(outqueue') = Range(outqueue) \cup {h}
    BY <2>2, <2>4
  <2> QED BY <1>2, <2>5 DEF Linked
<1>3. CASE outqueue = <<>> /\ WriteChain(h, <<>>)
  <2>1. <<>> \in Seq(Pdus) /\ Range(<<>>) = {}
    BY SmallSeq
  <2>2. Range(<<>>) = Range(outqueue) \ {h}
    BY <1>3, <2>1
  <2> QED BY <1>3, <2>1, <2>2, WriteEffect
<1> QED BY <1>2, <1>3 DEF QueuePdu

(* The chains of the other heads stay as they are. *)
LEMMA MovedChains ==
    ASSUME IInv, NEW h \in Pdus, chain[h] # <<>>, Linked(h) \/ Moved(h),
           NEW g \in Range(outqueue'), g # h
    PROVE  g \in Range(outqueue) /\ chain'[g] = chain[g]
<1>1. TypeOK /\ ChainsSound /\ LinksSound
  BY DEF IInv
<1>2. g \in Range(outqueue)
  BY DEF Linked, Moved
<1>3. g \in Pdus /\ chain[g] # <<>>
  BY <1>1, <1>2, ChainFacts DEF LinksSound, Awaits
<1>4. g \notin Range(chain[h])
  BY <1>1, <1>3, ChainFacts
<1> QED BY <1>2, <1>3, <1>4 DEF Linked, Moved

(* Writing keeps the order of compounds. *)
LEMMA WriteOrder ==
    ASSUME IInv, OrderInv, WriteToSocket
    PROVE  OrderInv'
<1>1. PICK h \in Range(outqueue) : h \in Pdus /\ (Linked(h) \/ Moved(h))
  BY WriteToSocketEffect
<1>2. chain[h] # <<>>
  BY DEF IInv, LinksSound, Awaits
<1>3. UNCHANGED <<mid, prevMid, pdu, recv_state, calls>>
  BY DEF WriteToSocket, hdrVars, recvVars, histVars
<1>4. ASSUME NEW g \in Range(outqueue')
      PROVE  g \in Range(outqueue) /\ Range(chain'[g]) = Range(chain[g])
  <2>1. CASE g = h
    <3>1. chain' = chain
      BY <1>1, <2>1 DEF Linked, Moved
    <3> QED BY <2>1, <3>1
  <2>2. CASE g # h
    BY <1>1, <1>2, <2>2, MovedChains
  <2> QED BY <2>1, <2>2
<1>5. \A x \in Range(waitqueue') : x \in Range(waitqueue) \/ Unwritten(x)
  BY <1>1 DEF Linked, Moved, Unwritten
<1> QED BY <1>3, <1>4, <1>5, OrderKept

(* Queueing keeps it: within the new compound each remembers the one       *)
(* before it, and no earlier request remembers one of the new ids.         *)
LEMMA QueueOrder ==
    ASSUME IInv, MidsOrdered, OrderInv, NEW h \in Pdus, QueuePdu(h)
    PROVE  OrderInv'
<1> DEFINE C == Range(chain[h])
<1>1. /\ chain[h] # <<>> /\ h \in C /\ C \subseteq Pdus
      /\ \A p \in C : /\ mid[p] = NoMid /\ mid'[p] \in Nat /\ message_id <= mid'[p]
      /\ \A p, q \in C : p # q => mid'[p] # mid'[q]
      /\ \A p \in C : p # h => \E q \in C : prevMid'[p] = mid'[q] /\ mid'[q] < mid'[p]
      /\ prevMid'[h] = prevMid[h]
      /\ \A p \in Pdus \ C : mid'[p] = mid[p] /\ prevMid'[p] = prevMid[p]
  BY QueueNumbers
<1>2. Linked(h) \/ Moved(h)
  BY QueueEffect
<1>3. UNCHANGED <<pdu, recv_state, calls>>
  BY DEF QueuePdu, recvVars, histVars
<1>4. TypeOK /\ ChainsSound /\ CallsSound /\ LinksSound
  BY DEF IInv
<1>5. prevMid'[h] = 0
  BY <1>1, <1>4 DEF OrderInv, PrevSound, TypeOK
<1>6. /\ message_id \in Nat /\ prevMid \in [Pdus -> Nat] /\ mid \in [Pdus -> Int]
      /\ \A p \in Pdus : MidStep(p) \in Nat \ {0}
  <2>1. message_id \in Nat /\ prevMid \in [Pdus -> Nat] /\ mid \in [Pdus -> Int]
        /\ charge \in [Pdus -> Nat]
    BY <1>4 DEF TypeOK
  <2> QED BY <2>1 DEF MidStep
<1>7. \A x \in C, g \in Pdus : x \in Range(chain[g]) => g = h
  BY <1>4 DEF ChainsSound
<1> HIDE DEF C
<1>8. \A p \in Pdus \ C : prevMid'[p] # 0 => mid[p] # NoMid /\ prevMid[p] < message_id
  <2> SUFFICES ASSUME NEW p \in Pdus \ C, prevMid'[p] # 0
               PROVE  mid[p] # NoMid /\ prevMid[p] < message_id
    OBVIOUS
  <2>1. mid[p] # NoMid /\ prevMid[p] < mid[p]
    BY <1>1 DEF OrderInv, PrevSound
  <2>2. mid[p] + MidStep(p) <= message_id
    BY <2>1 DEF MidsOrdered
  <2> QED BY <1>6, <2>1, <2>2
<1>9. ASSUME NEW p \in Pdus, NEW q \in Pdus, prevMid'[p] # 0, mid'[q] = prevMid'[p]
      PROVE  (p \in C /\ q \in C) \/ (p \notin C /\ q \notin C /\ Behind(p, q))
  <2>1. CASE p \in C
    <3>1. PICK r \in C : prevMid'[p] = mid'[r]
      BY <1>1, <1>5, <1>9, <2>1
    <3>2. CASE q \in C
      BY <2>1, <3>2
    <3>3. CASE q \notin C
      <4>1. mid[q] = mid'[r] /\ mid'[r] \in Nat /\ message_id <= mid'[r]
        BY <1>1, <1>9, <3>1, <3>3
      <4>2. mid[q] # NoMid
        BY <4>1 DEF NoMid
      <4>3. mid[q] + MidStep(q) <= message_id
        BY <4>2 DEF MidsOrdered
      <4> QED BY <1>6, <4>1, <4>3
    <3> QED BY <3>2, <3>3
  <2>2. CASE p \notin C
    <3>1. prevMid'[p] = prevMid[p] /\ prevMid[p] < message_id
      BY <1>1, <1>8, <1>9, <2>2
    <3>2. q \notin C
      BY <1>1, <1>6, <1>9, <3>1
    <3> QED BY <1>1, <1>9, <2>2, <3>1, <3>2 DEF Behind
  <2> QED BY <2>1, <2>2
<1>10. PrevSound'
  <2> SUFFICES ASSUME NEW p \in Pdus, prevMid'[p] # 0
               PROVE  mid'[p] # NoMid /\ prevMid'[p] < mid'[p]
    BY DEF PrevSound
  <2>1. CASE p \in C
    BY <1>1, <1>5, <2>1 DEF NoMid
  <2>2. CASE p \notin C
    BY <1>1, <2>2 DEF OrderInv, PrevSound
  <2> QED BY <2>1, <2>2
<1>11. Together'
  <2> SUFFICES ASSUME NEW p \in Pdus, NEW q \in Pdus, NEW g \in Range(outqueue'),
                      prevMid'[p] # 0, mid'[q] = prevMid'[p], q \in Range(chain'[g])
               PROVE  p \in Range(chain'[g])
    BY DEF Together, Behind
  <2>1. CASE g = h
    <3>1. chain' = chain
      BY <1>2, <2>1 DEF Linked, Moved
    <3>2. q \in C
      BY <2>1, <3>1 DEF C
    <3>3. p \in C
      BY <1>9, <3>2
    <3> QED BY <2>1, <3>1, <3>3 DEF C
  <2>2. CASE g # h
    <3>1. g \in Range(outqueue) /\ chain'[g] = chain[g] /\ g \in Pdus
      BY <1>1, <1>2, <1>4, <2>2, MovedChains, ChainFacts
    <3>2. q \notin C
      BY <1>7, <2>2, <3>1
    <3>3. Behind(p, q)
      BY <1>9, <3>2
    <3> QED BY <3>1, <3>3 DEF OrderInv, Together
  <2> QED BY <2>1, <2>2
<1>12. \A x \in Range(waitqueue') : x \in Range(waitqueue) \/ x \in C
  BY <1>2 DEF Linked, Moved, C
<1>13. ReadInOrder'
  <2> SUFFICES ASSUME NEW q \in Pdus, pdu \in Pdus, recv_state = "BODY", prevMid'[pdu] # 0,
                      mid'[q] = prevMid'[pdu], q \in Range(waitqueue')
               PROVE  FALSE
    BY <1>3 DEF ReadInOrder, Behind
  <2>1. pdu \notin C
    <3>1. CASE pdu \in cancelled
      <4>1. C \subseteq live
        BY <1>1, ChainFacts DEF ChainsSound, C, IInv
      <4> QED BY <3>1, <4>1, CancelledGone
    <3>2. CASE pdu \notin cancelled
      BY <1>1, <1>4, <3>2 DEF LinksSound, Awaits
    <3> QED BY <3>1, <3>2
  <2>2. q \notin C /\ Behind(pdu, q)
    BY <1>9, <2>1
  <2> QED BY <1>12, <2>2 DEF OrderInv, ReadInOrder
<1>14. ASSUME NEW x \in Held' PROVE x \in Held \/ x \in C
  <2>1. CASE Unwritten(x)'
    <3>1. PICK g \in Range(outqueue') : x \in Range(chain'[g])
      BY <2>1 DEF Unwritten
    <3>2. CASE g = h
      BY <1>2, <3>1, <3>2 DEF Linked, Moved, C
    <3>3. CASE g # h
      <4>1. g \in Range(outqueue) /\ chain'[g] = chain[g]
        BY <1>1, <1>2, <3>3, MovedChains
      <4> QED BY <3>1, <4>1, HeldFacts DEF Unwritten
    <3> QED BY <3>2, <3>3
  <2>2. CASE ~Unwritten(x)'
    BY <1>3, <1>12, <1>14, <2>2, HeldFacts
  <2> QED BY <2>1, <2>2
<1>15. CompoundInOrder'
  <2> SUFFICES ASSUME NEW p \in Pdus, NEW q \in Pdus, calls[p] = <<"REPLY">>,
                      prevMid'[p] # 0, mid'[q] = prevMid'[p], q \in Held'
               PROVE  FALSE
    BY <1>3 DEF CompoundInOrder
  <2>1. p \notin C
    BY <1>1, <1>4 DEF CallsSound
  <2>2. q \notin C /\ Behind(p, q)
    BY <1>9, <2>1
  <2> QED BY <1>14, <2>2 DEF OrderInv, CompoundInOrder, Behind
<1> QED BY <1>10, <1>11, <1>13, <1>15 DEF OrderInv

(* A step that frees a PDU, with or without a callback other than that of  *)
(* a reply, keeps the order.                                               *)
LEMMA FreeOrder ==
    ASSUME IInv, OrderInv, NEW p \in Pdus, FreePdu(p),
           UNCHANGED <<mid, prevMid, pdu, recv_state>>,
           \A x \in Pdus : calls'[x] = <<"REPLY">> => calls[x] = <<"REPLY">>
    PROVE  OrderInv'
<1>1. /\ \A h \in Pdus \ {p} : chain'[h] = chain[h]
      /\ Range(outqueue') = Range(outqueue) \ {p}
      /\ Range(waitqueue') = Range(waitqueue) \ {p}
  BY FreeFacts DEF IInv, LinksSound
<1>2. Range(outqueue) \subseteq Pdus
  BY ChainFacts DEF IInv
<1> QED BY <1>1, <1>2, OrderKept

(* Finding the request of a reply keeps it: that is what the check of      *)
(* prev_compound_mid in smb2_read_data is for.                             *)
LEMMA HeaderOrder ==
    ASSUME IInv, OrderInv, RecvHeader
    PROVE  OrderInv'
<1>1. /\ UNCHANGED <<mid, prevMid, chain, outqueue, calls>>
      /\ recv_state = "HEADER" /\ pdu = NoPdu
  BY DEF RecvHeader, hdrVars, pduVars, histVars, IInv, RecvSound, Active
<1>2. CASE DiscardRest \/ (pdu' = BreakPdu /\ UNCHANGED waitqueue)
  BY <1>1, <1>2, OrderKept, EngineAssumption DEF DiscardRest
<1>3. CASE \E m : \E p \in FindPdu(m) : TakePdu(p)
  <2>1. PICK p \in Range(waitqueue) : TakePdu(p)
    BY <1>3 DEF FindPdu
  <2>2. pdu' = p /\ p \in Pdus
    BY <2>1, ChainFacts DEF TakePdu, IInv
  <2>3. CASE waitqueue' = waitqueue /\ recv_state' = recv_state
    BY <1>1, <2>2, <2>3, OrderKept
  <2>4. CASE ~(prevMid[p] # 0 /\ FindPdu(prevMid[p]) # {})
             /\ waitqueue' = RemoveFirst(waitqueue, p)
    <3>1. Range(waitqueue') = Range(waitqueue) \ {p}
      BY <2>4, RemoveFirstSeq DEF IInv, TypeOK, LinksSound
    <3>2. \A q \in Pdus : Behind(p, q) => q \notin Range(waitqueue)
      BY <2>4 DEF Behind, FindPdu
    <3> QED BY <1>1, <2>2, <3>1, <3>2, OrderKept
  <2> QED BY <2>1, <2>3, <2>4 DEF TakePdu
<1> QED BY <1>2, <1>3 DEF RecvHeader

(* What a delivered reply leaves.                                          *)
LEMMA BodyEffect ==
    ASSUME RecvBody, pdu \notin freed
    PROVE  /\ UNCHANGED <<mid, prevMid, ctx, cancelled>> /\ recv_state = "BODY" /\ pdu' = NoPdu
           /\ frame' = Tail(frame)
           /\ recv_state' = IF Tail(frame) = <<>> THEN "SPL" ELSE "HEADER"
           /\ calls' = [p \in Pdus |-> IF p = pdu THEN Append(calls[p], "REPLY") ELSE calls[p]]
           /\ \/ pdu \in Pdus /\ FreePdu(pdu)
              \/ UNCHANGED <<live, freed, chain, outqueue, waitqueue>>
BY DEF RecvBody, hdrVars, pduVars, queueVars

(* A request whose reply is being read and that is not freed awaits it.    *)
LEMMA ReadAwaits ==
    ASSUME IInv, pdu \in Pdus, pdu \notin freed
    PROVE  pdu \notin cancelled /\ Awaits(pdu) /\ chain[pdu] = <<pdu>>
<1>1. pdu \notin cancelled
  BY CancelledGone
<1> QED BY <1>1 DEF IInv, LinksSound

(* Delivering a reply keeps the order.                                     *)
LEMMA BodyOrder ==
    ASSUME IInv, OrderInv, RecvBody, pdu \notin freed
    PROVE  OrderInv'
<1>1. /\ UNCHANGED <<mid, prevMid>> /\ recv_state = "BODY" /\ pdu' = NoPdu
      /\ calls' = [p \in Pdus |-> IF p = pdu THEN Append(calls[p], "REPLY") ELSE calls[p]]
      /\ \/ pdu \in Pdus /\ FreePdu(pdu)
         \/ UNCHANGED <<chain, outqueue, waitqueue>>
  BY BodyEffect
<1>2. \A p \in Pdus : calls'[p] = <<"REPLY">> => calls[p] = <<"REPLY">> \/ p = pdu
  BY <1>1
<1>3. /\ \A h \in Range(outqueue') :
             h \in Range(outqueue) /\ Range(chain'[h]) = Range(chain[h])
      /\ Range(waitqueue') \subseteq Range(waitqueue)
  <2>1. CASE pdu \in Pdus /\ FreePdu(pdu)
    <3>1. /\ \A h \in Pdus \ {pdu} : chain'[h] = chain[h]
          /\ Range(outqueue') = Range(outqueue) \ {pdu}
          /\ Range(waitqueue') = Range(waitqueue) \ {pdu}
      BY <2>1, FreeFacts DEF IInv, LinksSound
    <3>2. Range(outqueue) \subseteq Pdus
      BY ChainFacts DEF IInv
    <3> QED BY <3>1, <3>2
  <2>2. CASE UNCHANGED <<chain, outqueue, waitqueue>>
    BY <2>2
  <2> QED BY <1>1, <2>1, <2>2
<1>4. pdu' \notin Pdus
  BY <1>1, EngineAssumption
<1> QED BY <1>1, <1>2, <1>3, <1>4, OrderKept

(* A round of the sweep does nothing to the requests, or it frees one that *)
(* is linked and calls it back.                                            *)
LEMMA SweepEffect ==
    ASSUME IInv, SweepStep
    PROVE  /\ UNCHANGED <<mid, prevMid, pdu, recv_state, ctx, cancelled>> /\ ctx = "active"
           /\ \/ UNCHANGED <<live, freed, chain, outqueue, waitqueue, calls>>
              \/ \E p \in Range(outqueue) \cup Range(waitqueue) :
                     /\ p \in Pdus /\ FreePdu(p)
                     /\ calls' = [calls EXCEPT ![p] = Append(@, "IO_TIMEOUT")]
<1>1. UNCHANGED <<mid, prevMid, pdu, recv_state, ctx, cancelled>> /\ ctx = "active"
  BY DEF SweepStep, hdrVars, recvVars, ctxVars, Active
<1>2. \/ UNCHANGED <<live, freed, chain, outqueue, waitqueue, calls>>
      \/ SweepQueue(outqueue) \/ SweepQueue(waitqueue)
  BY DEF SweepStep, pduVars, queueVars
<1>3. ASSUME NEW q \in Seq(Pdus), SweepQueue(q)
      PROVE  \/ UNCHANGED <<live, freed, chain, outqueue, waitqueue, calls>>
             \/ \E p \in Range(q) :
                     /\ p \in Pdus /\ FreePdu(p)
                     /\ calls' = [calls EXCEPT ![p] = Append(@, "IO_TIMEOUT")]
  <2>1. \/ UNCHANGED <<live, freed, chain, outqueue, waitqueue, calls>>
        \/ \E i \in DOMAIN q :
               /\ calls' = [calls EXCEPT ![q[i]] = Append(@, "IO_TIMEOUT")]
               /\ FreePdu(q[i])
    BY <1>3 DEF SweepQueue, pduVars, queueVars
  <2>2. \A i \in DOMAIN q : q[i] \in Range(q) /\ q[i] \in Pdus
    BY DEF Range
  <2> QED BY <2>1, <2>2
<1>4. outqueue \in Seq(Pdus) /\ waitqueue \in Seq(Pdus)
  BY DEF IInv, TypeOK
<1> QED BY <1>1, <1>2, <1>3, <1>4

(* A request that times out was not answered. *)
LEMMA SweepOrder ==
    ASSUME IInv, OrderInv, SweepStep
    PROVE  OrderInv'
<1>1. UNCHANGED <<mid, prevMid, pdu, recv_state>>
  BY SweepEffect
<1>2. CASE UNCHANGED <<live, freed, chain, outqueue, waitqueue, calls>>
  BY <1>1, <1>2, OrderKept
<1>3. ASSUME NEW p \in Range(outqueue) \cup Range(waitqueue), p \in Pdus, FreePdu(p),
             calls' = [calls EXCEPT ![p] = Append(@, "IO_TIMEOUT")]
      PROVE  OrderInv'
  <2>1. calls \in [Pdus -> Seq(Statuses)] /\ calls[p] = <<>>
    BY <1>3 DEF IInv, TypeOK, LinksSound, Awaits
  <2>2. calls'[p] = Append(<<>>, "IO_TIMEOUT") /\ \A x \in Pdus \ {p} : calls'[x] = calls[x]
    BY <1>3, <2>1
  <2>3. Append(<<>>, "IO_TIMEOUT") = <<"IO_TIMEOUT">>
    OBVIOUS
  <2>4. calls'[p] # <<"REPLY">>
    BY <2>2, <2>3
  <2>5. \A x \in Pdus : calls'[x] = <<"REPLY">> => calls[x] = <<"REPLY">>
    BY <2>2, <2>4
  <2> QED BY <1>1, <1>3, <2>5, FreeOrder
<1> QED BY <1>2, <1>3, SweepEffect

(* Chains that are not queued yet may change: those in outqueue do not.    *)
LEMMA UnqueuedOrder ==
    ASSUME IInv, OrderInv, UNCHANGED <<mid, prevMid, outqueue, waitqueue, pdu, recv_state, calls>>,
           \A h \in Pdus : Awaits(h) => chain'[h] = chain[h]
    PROVE  OrderInv'
<1>1. \A h \in Range(outqueue) : h \in Pdus /\ Awaits(h)
  BY ChainFacts DEF IInv, LinksSound
<1> QED BY <1>1, OrderKept

(* What allocating and compounding leave alone.                            *)
LEMMA AllocateEffect ==
    ASSUME IInv, NEW p \in Pdus, NEW c \in Charges, AllocatePdu(p, c)
    PROVE  /\ UNCHANGED <<mid, prevMid, freed, outqueue, waitqueue, pdu, recv_state, calls,
                          cancelled, ctx>>
           /\ live' = live \cup {p} /\ chain[p] = <<>> /\ chain'[p] = <<p>> /\ p \notin live
           /\ \A h \in Pdus \ {p} : chain'[h] = chain[h]
<1>1. /\ p \notin live /\ live' = live \cup {p} /\ chain' = [chain EXCEPT ![p] = <<p>>]
      /\ UNCHANGED <<mid, prevMid, freed, outqueue, waitqueue, pdu, recv_state, calls,
                     cancelled, ctx>>
  BY DEF AllocatePdu, queueVars, recvVars, histVars, ctxVars
<1>2. chain[p] = <<>>
  BY <1>1, ChainFacts DEF IInv
<1>3. chain \in [Pdus -> Seq(Pdus)]
  BY DEF IInv, TypeOK
<1> QED BY <1>1, <1>2, <1>3

(* smb2_add_compound_pdu changes the chains of its two PDUs, which have no *)
(* message id yet, and nothing else.                                       *)
LEMMA CompoundEffect ==
    ASSUME IInv, NEW h \in Pdus, NEW q \in Pdus, AddCompoundPdu(h, q)
    PROVE  /\ UNCHANGED <<mid, prevMid, live, freed, outqueue, waitqueue, pdu, recv_state, calls,
                          cancelled, ctx>>
           /\ mid[h] = NoMid /\ mid[q] = NoMid
           /\ \A g \in Pdus \ {h, q} : chain'[g] = chain[g]
<1>1. chain \in [Pdus -> Seq(Pdus)]
  BY DEF IInv, TypeOK
<1> QED BY <1>1 DEF AddCompoundPdu, Unqueued, hdrVars, queueVars, recvVars, histVars, ctxVars

(* Nothing is left of an engine that is torn down. *)
LEMMA DestroyOrder ==
    ASSUME IInv, OrderInv, DestroyContext
    PROVE  OrderInv' /\ Held' = {}
<1>1. /\ UNCHANGED <<mid, prevMid>> /\ outqueue' = <<>> /\ waitqueue' = <<>> /\ pdu' = NoPdu
  BY DEF DestroyContext, hdrVars
<1>2. Range(outqueue') = {} /\ Range(waitqueue') = {} /\ pdu' \notin Pdus
  BY <1>1, SmallSeq, EngineAssumption
<1>3. \A x : x \notin Held'
  BY <1>2, HeldFacts DEF Unwritten
<1>4. PrevSound' /\ Together' /\ ReadInOrder' /\ CompoundInOrder'
  BY <1>1, <1>2, <1>3 DEF OrderInv, PrevSound, Together, ReadInOrder, CompoundInOrder
<1> QED BY <1>3, <1>4 DEF OrderInv

(* The steps that leave the requests alone.                                *)
Untouched ==
    /\ UNCHANGED <<mid, prevMid, live, freed, chain, outqueue, waitqueue, pdu, calls, cancelled>>
    /\ recv_state' = "BODY" => recv_state = "BODY"
    /\ ctx' = "destroyed" <=> ctx = "destroyed"

(* The receiver before a body, the clock and the start of a sweep do, and  *)
(* the accesses to freed memory.                                           *)
LEMMA UntouchedBy ==
    ASSUME \/ \E f \in Frames(owed) : RecvSpl(f)
           \/ RecvDiscard \/ ServiceFails \/ SweepBegin \/ Tick \/ UNCHANGED vars
           \/ \E p \in Pdus : FreeAborted(p)
           \/ RecvBody /\ pdu \in freed
    PROVE  Untouched
<1>1. ASSUME NEW f, RecvSpl(f) PROVE Untouched
  BY <1>1 DEF RecvSpl, Untouched, pduVars, hdrVars, queueVars, ctxVars, histVars
<1>2. CASE RecvDiscard \/ ServiceFails
  BY <1>2 DEF RecvDiscard, ServiceFails, Untouched, pduVars, hdrVars, queueVars, recvVars,
              ctxVars, histVars, Active
<1>3. CASE SweepBegin \/ Tick \/ UNCHANGED vars
  BY <1>3 DEF SweepBegin, Tick, Untouched, vars, pduVars, hdrVars, queueVars, recvVars, ctxVars,
              histVars
<1>4. ASSUME NEW p \in Pdus, FreeAborted(p) PROVE Untouched
  BY <1>4 DEF FreeAborted, Untouched, pduVars, hdrVars, queueVars, recvVars, ctxVars
<1>5. CASE RecvBody /\ pdu \in freed
  BY <1>5 DEF RecvBody, Untouched, pduVars, hdrVars, queueVars, recvVars
<1> QED BY <1>1, <1>2, <1>3, <1>4, <1>5

(* Every step keeps the order of compounds. *)
LEMMA NextOrder ==
    ASSUME IInv, MidsOrdered, OrderInv, [Next]_vars
    PROVE  OrderInv'
<1>1. ASSUME NEW p \in Pdus, NEW c \in Charges, AllocatePdu(p, c) PROVE OrderInv'
  <2>1. /\ UNCHANGED <<mid, prevMid, outqueue, waitqueue, pdu, recv_state, calls>>
        /\ chain[p] = <<>> /\ \A h \in Pdus \ {p} : chain'[h] = chain[h]
    BY <1>1, AllocateEffect
  <2> QED BY <2>1, UnqueuedOrder DEF Awaits
<1>2. ASSUME NEW h \in Pdus, NEW q \in Pdus, AddCompoundPdu(h, q) PROVE OrderInv'
  <2>1. /\ UNCHANGED <<mid, prevMid, outqueue, waitqueue, pdu, recv_state, calls>>
        /\ mid[h] = NoMid /\ mid[q] = NoMid
        /\ \A g \in Pdus \ {h, q} : chain'[g] = chain[g]
    BY <1>2, CompoundEffect
  <2> QED BY <2>1, UnqueuedOrder DEF Awaits
<1>3. ASSUME NEW h \in Pdus, QueuePdu(h) PROVE OrderInv'
  BY <1>3, QueueOrder
<1>4. ASSUME NEW p \in Pdus, Cancel(p) \/ FreeCalled(p) PROVE OrderInv'
  <2>1. FreePdu(p) /\ UNCHANGED <<mid, prevMid, pdu, recv_state, calls>>
    BY <1>4 DEF Cancel, FreeCalled, hdrVars, recvVars, histVars
  <2> QED BY <2>1, FreeOrder
<1>6. CASE Untouched
  BY <1>6, OrderKept DEF Untouched
<1>7. CASE DestroyContext
  BY <1>7, DestroyOrder
<1> QED BY <1>1, <1>2, <1>3, <1>4, <1>6, <1>7, UntouchedBy, WriteOrder, HeaderOrder,
           BodyOrder, SweepOrder DEF Next, Application, Service

(* The message id ranges of two requests never overlap, whatever was       *)
(* compounded and charged.                                                 *)
THEOREM MessageIdsDisjoint == Spec => []MidsDisjoint
<1>1. Init => MidsOrdered
  BY DEF Init, MidsOrdered
<1>2. IInv /\ MidsOrdered /\ [Next]_vars => MidsOrdered'
  BY NextMids
<1>3. IInv /\ MidsOrdered => MidsDisjoint
  <2> SUFFICES ASSUME IInv, MidsOrdered, NEW p \in Pdus, NEW q \in Pdus, p # q,
                      mid[p] # NoMid, mid[q] # NoMid
               PROVE  mid[p] # mid[q] /\ (mid[p] < mid[q] => mid[p] + charge[p] <= mid[q])
    BY DEF MidsDisjoint
  <2>1. charge[p] \in Nat
    BY DEF IInv, TypeOK
  <2>2. /\ mid[p] \in Nat /\ mid[q] \in Nat /\ mid[p] # mid[q]
        /\ mid[p] < mid[q] => mid[p] + MidStep(p) <= mid[q]
    BY DEF MidsOrdered
  <2>3. MidStep(p) \in Nat /\ charge[p] <= MidStep(p)
    BY <2>1 DEF MidStep
  <2> QED BY <2>1, <2>2, <2>3
<1> QED BY <1>1, <1>2, <1>3, Invariance, PTL DEF Spec

(* A request of a compound is answered only after the one before it was    *)
(* answered, timed out or cancelled: a reply out of order fails the        *)
(* service and calls nobody back.                                          *)
THEOREM CompoundsInOrder == Spec => []CompoundInOrder
<1>1. Init => MidsOrdered
  BY DEF Init, MidsOrdered
<1>2. Init => OrderInv
  <2> SUFFICES ASSUME Init PROVE OrderInv
    OBVIOUS
  <2>1. /\ \A p \in Pdus : prevMid[p] = 0
        /\ Range(outqueue) = {} /\ Range(waitqueue) = {}
    BY SmallSeq DEF Init
  <2> QED BY <2>1 DEF OrderInv, PrevSound, Together, Behind, ReadInOrder, CompoundInOrder
<1>3. IInv /\ MidsOrdered /\ [Next]_vars => MidsOrdered'
  BY NextMids
<1>4. IInv /\ MidsOrdered /\ OrderInv /\ [Next]_vars => OrderInv'
  BY NextOrder
<1>5. OrderInv => CompoundInOrder
  BY DEF OrderInv
<1> QED BY <1>1, <1>2, <1>3, <1>4, <1>5, Invariance, PTL DEF Spec

-----------------------------------------------------------------------------
(* No request is forgotten. *)

(* Every request that was queued and has not been called back, cancelled   *)
(* or dropped is held by the engine, which will call it back.              *)
AllHeld == \A p \in live : mid[p] # NoMid /\ calls[p] = <<>> => p \in Held

(* A request that has been called back is on its own: to free it frees no  *)
(* other.                                                                  *)
CalledAlone == \A p \in Pdus : calls[p] # <<>> => Range(chain[p]) \subseteq {p}

HeldInv == AllHeld /\ CalledAlone

(* What is linked or moved is held. *)
LEMMA LinkHeld ==
    ASSUME IInv, NEW h \in Pdus, chain[h] # <<>>, Linked(h) \/ Moved(h), pdu' = pdu
    PROVE  /\ \A x : x \in Held \/ x \in Range(chain[h]) => x \in Held'
           /\ \A g \in Pdus : Range(chain'[g]) = Range(chain[g]) \/ Range(chain'[g]) = {g}
<1>1. ASSUME NEW x \in Range(chain[h]) PROVE x \in Held'
  <2>1. CASE Linked(h)
    <3>1. h \in Range(outqueue') /\ x \in Range(chain'[h])
      BY <1>1, <2>1 DEF Linked
    <3> QED BY <3>1, HeldFacts DEF Unwritten
  <2>2. CASE Moved(h)
    <3>1. x \in Range(waitqueue')
      BY <1>1, <2>2 DEF Moved
    <3> QED BY <3>1, HeldFacts
  <2> QED BY <2>1, <2>2
<1>2. ASSUME NEW x \in Held PROVE x \in Held'
  <2>1. CASE Unwritten(x)
    <3>1. PICK g \in Range(outqueue) : x \in Range(chain[g])
      BY <2>1 DEF Unwritten
    <3>2. CASE g = h
      BY <1>1, <3>1, <3>2
    <3>3. CASE g # h
      <4>1. g \in Range(outqueue')
        BY <3>3 DEF Linked, Moved
      <4>2. chain'[g] = chain[g]
        BY <3>3, <4>1, MovedChains
      <4> QED BY <3>1, <4>1, <4>2, HeldFacts DEF Unwritten
    <3> QED BY <3>2, <3>3
  <2>2. CASE x \in Range(waitqueue)
    <3>1. x \in Range(waitqueue')
      BY <2>2 DEF Linked, Moved
    <3> QED BY <3>1, HeldFacts
  <2>3. CASE x = pdu /\ x \in Pdus
    BY <2>3, HeldFacts
  <2> QED BY <2>1, <2>2, <2>3, HeldFacts
<1>3. \A g \in Pdus : Range(chain'[g]) = Range(chain[g]) \/ Range(chain'[g]) = {g}
  <2>1. \A g \in Pdus : chain'[g] = chain[g] \/ chain'[g] = <<g>>
    BY DEF Linked, Moved
  <2>2. \A g \in Pdus : Range(<<g>>) = {g}
    BY SmallSeq
  <2> QED BY <2>1, <2>2
<1> QED BY <1>1, <1>2, <1>3

(* Queueing and writing. *)
LEMMA QueueHeld ==
    ASSUME IInv, HeldInv, NEW h \in Pdus, QueuePdu(h)
    PROVE  HeldInv'
<1>1. /\ chain[h] # <<>>
      /\ \A p \in Pdus \ Range(chain[h]) : mid'[p] = mid[p]
  BY QueueNumbers
<1>2. UNCHANGED <<live, calls, pdu>>
  BY DEF QueuePdu, histVars, recvVars
<1>3. /\ \A x : x \in Held \/ x \in Range(chain[h]) => x \in Held'
      /\ \A g \in Pdus : Range(chain'[g]) = Range(chain[g]) \/ Range(chain'[g]) = {g}
  BY <1>1, <1>2, LinkHeld, QueueEffect
<1>4. live \subseteq Pdus
  BY DEF IInv, TypeOK
<1> QED BY <1>1, <1>2, <1>3, <1>4 DEF HeldInv, AllHeld, CalledAlone

(* A request that is written is still held. *)
LEMMA WriteHeld ==
    ASSUME IInv, HeldInv, WriteToSocket
    PROVE  HeldInv'
<1>1. PICK h \in Range(outqueue) : h \in Pdus /\ (Linked(h) \/ Moved(h))
  BY WriteToSocketEffect
<1>2. chain[h] # <<>>
  BY DEF IInv, LinksSound, Awaits
<1>3. UNCHANGED <<mid, live, pdu, calls>>
  BY DEF WriteToSocket, hdrVars, recvVars, histVars
<1>4. /\ \A x : x \in Held => x \in Held'
      /\ \A g \in Pdus : Range(chain'[g]) = Range(chain[g]) \/ Range(chain'[g]) = {g}
  BY <1>1, <1>2, <1>3, LinkHeld
<1> QED BY <1>3, <1>4 DEF HeldInv, AllHeld, CalledAlone

(* Freeing p, after a callback or without one.                             *)
LEMMA FreeHeld ==
    ASSUME IInv, HeldInv, NEW p \in Pdus, FreePdu(p), mid' = mid,
           pdu' = pdu \/ (p = pdu /\ chain[p] # <<>>),
           \A x \in Pdus \ {p} : calls'[x] = calls[x],
           calls'[p] = <<>> => calls[p] = <<>>
    PROVE  HeldInv'
<1>1. TypeOK /\ ChainsSound /\ LinksSound
  BY DEF IInv
<1>2. /\ \A h \in Pdus \ {p} : chain'[h] = chain[h]
      /\ Range(chain'[p]) = {}
      /\ Range(outqueue') = Range(outqueue) \ {p}
      /\ Range(waitqueue') = Range(waitqueue) \ {p}
  BY <1>1, FreeFacts DEF LinksSound
<1>3. live' = live \ Range(chain[p]) /\ live \subseteq Pdus
  BY <1>1 DEF FreePdu, TypeOK
<1>4. chain[p] # <<>> => p \in Range(chain[p])
  BY <1>1, ChainFacts
<1>5. ASSUME NEW x \in live', x \in Held PROVE x \in Held'
  <2>1. x \notin Range(chain[p])
    BY <1>3
  <2>2. CASE Unwritten(x)
    <3>1. PICK h \in Range(outqueue) : x \in Range(chain[h])
      BY <2>2 DEF Unwritten
    <3>2. h \in Pdus /\ h # p
      BY <1>1, <2>1, <3>1, ChainFacts
    <3>3. h \in Range(outqueue') /\ x \in Range(chain'[h])
      BY <1>2, <3>1, <3>2
    <3> QED BY <3>3, HeldFacts DEF Unwritten
  <2>3. CASE x \in Range(waitqueue)
    <3>1. x # p
      BY <1>1, <1>4, <2>1, <2>3 DEF LinksSound, Awaits
    <3> QED BY <1>2, <2>3, <3>1, HeldFacts
  <2>4. CASE x = pdu /\ x \in Pdus
    <3>1. pdu' = pdu
      BY <1>4, <2>1, <2>4
    <3> QED BY <2>4, <3>1, HeldFacts
  <2> QED BY <1>5, <2>2, <2>3, <2>4, HeldFacts
<1>6. AllHeld'
  <2> SUFFICES ASSUME NEW x \in live', mid[x] # NoMid, calls'[x] = <<>>
               PROVE  x \in Held'
    BY DEF AllHeld
  <2>1. x \in live /\ x \in Pdus /\ calls[x] = <<>>
    BY <1>3
  <2> QED BY <1>5, <2>1 DEF HeldInv, AllHeld
<1>7. CalledAlone'
  BY <1>2 DEF HeldInv, CalledAlone
<1> QED BY <1>6, <1>7 DEF HeldInv

(* Finding the request of a reply: what leaves waitqueue is smb2->pdu.     *)
LEMMA HeaderHeld ==
    ASSUME IInv, HeldInv, RecvHeader
    PROVE  HeldInv'
<1>1. /\ UNCHANGED <<mid, chain, outqueue, calls, live>> /\ pdu = NoPdu
  BY DEF RecvHeader, hdrVars, pduVars, histVars, IInv, RecvSound, Active
<1>2. \A x : Unwritten(x)' <=> Unwritten(x)
  BY <1>1 DEF Unwritten
<1>3. \A x \in Range(waitqueue) : x \in Range(waitqueue') \/ (x = pdu' /\ x \in Pdus)
  <2>1. CASE waitqueue' = waitqueue
    BY <2>1
  <2>2. CASE \E m : \E p \in FindPdu(m) : TakePdu(p)
    <3>1. PICK p \in Range(waitqueue) : TakePdu(p)
      BY <2>2 DEF FindPdu
    <3>2. pdu' = p /\ p \in Pdus /\ (waitqueue' = waitqueue \/ waitqueue' = RemoveFirst(waitqueue, p))
      BY <3>1, ChainFacts DEF TakePdu, IInv
    <3>3. Range(RemoveFirst(waitqueue, p)) = Range(waitqueue) \ {p}
      BY RemoveFirstSeq DEF IInv, TypeOK, LinksSound
    <3> QED BY <3>2, <3>3
  <2> QED BY <2>1, <2>2 DEF RecvHeader, DiscardRest
<1>4. \A x : x \in Held => x \in Held'
  BY <1>1, <1>2, <1>3, HeldFacts, EngineAssumption
<1> QED BY <1>1, <1>4 DEF HeldInv, AllHeld, CalledAlone

(* Delivering a reply. *)
LEMMA BodyHeld ==
    ASSUME IInv, HeldInv, RecvBody, pdu \notin freed
    PROVE  HeldInv'
<1>1. /\ mid' = mid /\ pdu' = NoPdu
      /\ calls' = [p \in Pdus |-> IF p = pdu THEN Append(calls[p], "REPLY") ELSE calls[p]]
      /\ \/ pdu \in Pdus /\ FreePdu(pdu)
         \/ UNCHANGED <<live, freed, chain, outqueue, waitqueue>>
  BY BodyEffect
<1>2. pdu \in Pdus => calls'[pdu] # <<>>
  <2>1. calls \in [Pdus -> Seq(Statuses)] /\ "REPLY" \in Statuses
    BY DEF IInv, TypeOK, Statuses
  <2>2. pdu \in Pdus => calls'[pdu] = Append(calls[pdu], "REPLY")
    BY <1>1
  <2> QED BY <2>1, <2>2, AppendProperties
<1>3. \A x \in Pdus : x # pdu => calls'[x] = calls[x]
  BY <1>1
<1>4. pdu \in Pdus => chain[pdu] = <<pdu>> /\ chain[pdu] # <<>> /\ Range(chain[pdu]) = {pdu}
  <2>1. pdu \in Pdus => chain[pdu] = <<pdu>> /\ chain[pdu] # <<>>
    BY ReadAwaits DEF Awaits
  <2> QED BY <2>1, SmallSeq
<1>5. CASE pdu \in Pdus /\ FreePdu(pdu)
  <2>1. PICK p \in Pdus : p = pdu
    BY <1>5
  <2>2. FreePdu(p)
    BY <1>5, <2>1, Zenon
  <2> QED BY <1>1, <1>2, <1>3, <1>4, <2>1, <2>2, FreeHeld
<1>6. CASE UNCHANGED <<live, freed, chain, outqueue, waitqueue>>
  <2>1. \A x : Unwritten(x)' <=> Unwritten(x)
    BY <1>6 DEF Unwritten
  <2>2. \A x : x \in Held /\ x # pdu => x \in Held'
    BY <1>6, <2>1, HeldFacts
  <2>3. live \subseteq Pdus
    BY DEF IInv, TypeOK
  <2>4. AllHeld'
    BY <1>1, <1>2, <1>3, <1>6, <2>2, <2>3 DEF HeldInv, AllHeld
  <2>5. CalledAlone'
    BY <1>3, <1>4, <1>6 DEF HeldInv, CalledAlone
  <2> QED BY <2>4, <2>5 DEF HeldInv
<1> QED BY <1>1, <1>5, <1>6

(* Allocating and compounding concern requests that are not queued.        *)
LEMMA AllocateHeld ==
    ASSUME IInv, MidsOrdered, HeldInv, NEW p \in Pdus, NEW c \in Charges, AllocatePdu(p, c)
    PROVE  HeldInv'
<1>1. /\ UNCHANGED <<mid, outqueue, waitqueue, pdu, calls>>
      /\ live' = live \cup {p} /\ chain[p] = <<>> /\ chain'[p] = <<p>>
      /\ \A h \in Pdus \ {p} : chain'[h] = chain[h]
  BY AllocateEffect
<1>2. mid[p] = NoMid
  BY DEF AllocatePdu, MidsOrdered
<1>3. \A h \in Range(outqueue) : h \in Pdus /\ h # p
  BY <1>1, ChainFacts DEF IInv, LinksSound, Awaits
<1>4. \A x : Unwritten(x) => Unwritten(x)'
  BY <1>1, <1>3 DEF Unwritten
<1>5. \A x : x \in Held => x \in Held'
  BY <1>1, <1>4, HeldFacts
<1>6. AllHeld'
  BY <1>1, <1>2, <1>5 DEF HeldInv, AllHeld
<1>7. Range(<<p>>) = {p}
  BY SmallSeq
<1>8. CalledAlone'
  BY <1>1, <1>7 DEF HeldInv, CalledAlone
<1> QED BY <1>6, <1>8 DEF HeldInv

(* Requests that are compounded were not called back.                      *)
LEMMA CompoundHeld ==
    ASSUME IInv, HeldInv, NEW h \in Pdus, NEW q \in Pdus, AddCompoundPdu(h, q)
    PROVE  HeldInv'
<1>1. /\ UNCHANGED <<mid, live, outqueue, waitqueue, pdu, calls>>
      /\ mid[h] = NoMid /\ mid[q] = NoMid
      /\ \A g \in Pdus \ {h, q} : chain'[g] = chain[g]
  BY CompoundEffect
<1>2. calls[h] = <<>> /\ calls[q] = <<>>
  BY <1>1 DEF IInv, CallsSound
<1>3. \A g \in Range(outqueue) : g \in Pdus /\ g # h /\ g # q
  BY <1>1, ChainFacts DEF IInv, LinksSound, Awaits
<1>4. \A x : Unwritten(x) => Unwritten(x)'
  BY <1>1, <1>3 DEF Unwritten
<1>5. \A x : x \in Held => x \in Held'
  BY <1>1, <1>4, HeldFacts
<1> QED BY <1>1, <1>2, <1>5 DEF HeldInv, AllHeld, CalledAlone

(* The requests smb2_destroy_context calls back itself; the others it      *)
(* frees are behind one of these in a chain.                               *)
Heads == Range(outqueue) \cup Range(waitqueue) \cup (({pdu} \cap Pdus) \ cancelled)

(* The teardown frees all that the engine holds, and calls each head back. *)
LEMMA DestroyEffect ==
    ASSUME IInv, DestroyContext
    PROVE  /\ UNCHANGED <<mid, cancelled>> /\ ctx # "destroyed" /\ ctx' = "destroyed"
           /\ live' = live \ Held /\ freed' = freed \cup Held
           /\ Heads \subseteq Held /\ Held \ cancelled \subseteq live
           /\ \A p \in Held : p \in Pdus /\ chain'[p] = <<>>
           /\ \A p \in Pdus \ Held : chain'[p] = chain[p]
           /\ \A p \in Pdus : p \in Heads => calls'[p] = <<"SHUTDOWN">>
           /\ \A p \in Pdus : p \notin Heads => calls'[p] = calls[p]
           /\ \A p \in Held \ cancelled : calls[p] = <<>> /\ mid[p] # NoMid
<1> DEFINE waiting == RemoveFirst(waitqueue, pdu)
           gone == (UNION {Range(chain[h]) : h \in Range(outqueue)})
                   \cup ({pdu} \cap Pdus) \cup Range(waiting)
           Out(p) == p \in Range(outqueue)
           Cur(p) == p = pdu /\ p \notin freed
           Wait(p) == p \in Range(waiting)
<1>1. /\ TypeOK /\ ChainsSound /\ CallsSound /\ LinksSound
      /\ waitqueue \in Seq(Pdus) /\ IsInjective(waitqueue)
  BY DEF IInv, LinksSound, TypeOK
<1>2. /\ calls' = [p \in Pdus |-> calls[p] \o Shutdown(Out(p))
                                  \o Shutdown(Cur(p)) \o Shutdown(Wait(p))]
      /\ live' = live \ gone /\ freed' = freed \cup gone
      /\ chain' = [p \in Pdus |-> IF p \in gone THEN <<>> ELSE chain[p]]
      /\ UNCHANGED <<mid, cancelled>> /\ ctx # "destroyed" /\ ctx' = "destroyed"
  BY DEF DestroyContext, WaitingAtShutdown, hdrVars
<1>3. /\ Range(waiting) = Range(waitqueue) \ {pdu}
      /\ Range(outqueue) \subseteq Pdus /\ Range(waitqueue) \subseteq Pdus
  BY <1>1, RemoveFirstSeq, ChainFacts
<1> HIDE DEF waiting
<1>4. \A x : x \in gone <=> x \in Held
  <2> DEFINE U == UNION {Range(chain[h]) : h \in Range(outqueue)}
  <2>1. /\ gone = U \cup ({pdu} \cap Pdus) \cup Range(waiting)
        /\ Held = U \cup Range(waitqueue) \cup ({pdu} \cap Pdus)
    BY Zenon DEF Held
  <2> HIDE DEF U, gone
  <2> QED BY <1>3, <2>1
<1>5. gone = Held
  BY <1>4
<1> HIDE DEF gone
<1>6. \A h \in Heads : /\ h \in Pdus /\ Awaits(h) /\ h \in Range(chain[h])
                       /\ h \in live
  <2>1. \A h \in Heads : h \in Pdus /\ Awaits(h)
    BY <1>1, <1>3 DEF LinksSound, Heads
  <2> QED BY <1>1, <2>1, ChainFacts DEF Awaits
<1>7. Heads \subseteq Held
  BY <1>6, HeldFacts DEF Heads, Unwritten
<1>8. ASSUME NEW x \in Held \ cancelled
      PROVE  x \in live /\ calls[x] = <<>> /\ mid[x] # NoMid
  <2>1. CASE x \in Heads
    BY <1>6, <2>1 DEF Awaits
  <2>2. CASE x \notin Heads
    <3>1. PICK h \in Range(outqueue) : x \in Range(chain[h])
      BY <2>2, HeldFacts DEF Heads, Unwritten
    <3>2. h \in Pdus /\ h \in Heads /\ mid[h] # NoMid
      BY <1>3, <1>6 DEF Heads, Awaits
    <3>3. x # h
      BY <2>2, <3>2
    <3> QED BY <1>1, <3>1, <3>2, <3>3 DEF ChainsSound, CallsSound
  <2> QED BY <2>1, <2>2
<1>9. ASSUME NEW p \in Pdus
      PROVE  /\ p \notin Heads => calls'[p] = calls[p]
             /\ p \in Heads => calls'[p] = <<"SHUTDOWN">>
  <2>1. calls[p] \in Seq(Statuses)
    BY <1>1 DEF TypeOK
  <2>2. calls'[p] = calls[p] \o Shutdown(Out(p)) \o Shutdown(Cur(p))
                    \o Shutdown(Wait(p))
    BY <1>2
  <2>3. \A s \in Seq(Statuses) : s \o <<>> = s /\ <<>> \o s = s
    BY ConcatEmptySeq
  <2>4. <<"SHUTDOWN">> \in Seq(Statuses) /\ <<>> \in Seq(Statuses)
    BY SmallSeq DEF Statuses
  <2>5. CASE p \notin Heads
    <3>1. ~Out(p) /\ ~Cur(p) /\ ~Wait(p)
      BY <1>3, <2>5, CancelledGone DEF Heads
    <3>2. calls'[p] = calls[p] \o <<>> \o <<>> \o <<>>
      BY <2>2, <3>1, Zenon DEF Shutdown
    <3>3. calls'[p] = calls[p]
      BY <2>1, <2>3, <3>2, Zenon
    <3> QED BY <2>5, <3>3
  <2>6. CASE p \in Heads
    <3>1. calls[p] = <<>> /\ p \notin freed
      BY <1>1, <1>6, <2>6 DEF Awaits, ChainsSound
    <3>2. \/ Out(p) /\ ~Cur(p) /\ ~Wait(p)
          \/ ~Out(p) /\ Cur(p) /\ ~Wait(p)
          \/ ~Out(p) /\ ~Cur(p) /\ Wait(p)
      <4>1. p \notin cancelled
        BY <3>1, CancelledGone
      <4> QED BY <1>1, <1>3, <2>6, <3>1, <4>1 DEF LinksSound, Heads
    <3>3. \/ calls'[p] = <<>> \o <<"SHUTDOWN">> \o <<>> \o <<>>
          \/ calls'[p] = <<>> \o <<>> \o <<"SHUTDOWN">> \o <<>>
          \/ calls'[p] = <<>> \o <<>> \o <<>> \o <<"SHUTDOWN">>
      BY <2>2, <3>1, <3>2, Zenon DEF Shutdown
    <3>4. calls'[p] = <<"SHUTDOWN">>
      BY <2>3, <2>4, <3>3, Zenon
    <3> QED BY <2>6, <3>4
  <2> QED BY <2>5, <2>6
<1>10. Held \ cancelled \subseteq live /\ live \subseteq Pdus /\ Held \subseteq Pdus
  BY <1>1, <1>8, CancelledGone DEF TypeOK
<1>11. /\ \A p \in Held : p \in Pdus /\ chain'[p] = <<>>
       /\ \A p \in Pdus \ Held : chain'[p] = chain[p]
  BY <1>2, <1>5, <1>10
<1> QED BY <1>2, <1>5, <1>7, <1>8, <1>9, <1>10, <1>11

(* The teardown leaves no queued request without a callback.               *)
LEMMA DestroyHeld ==
    ASSUME IInv, HeldInv, DestroyContext
    PROVE  HeldInv'
<1>1. /\ mid' = mid /\ live' = live \ Held /\ Heads \subseteq Held
      /\ \A p \in Held : p \in Pdus /\ chain'[p] = <<>>
      /\ \A p \in Pdus \ Held : chain'[p] = chain[p]
      /\ \A p \in Pdus : p \in Heads => calls'[p] = <<"SHUTDOWN">>
      /\ \A p \in Pdus : p \notin Heads => calls'[p] = calls[p]
  BY DestroyEffect
<1>2. live \subseteq Pdus /\ Range(<<>>) = {}
  BY SmallSeq DEF IInv, TypeOK
<1>3. AllHeld'
  BY <1>1, <1>2 DEF HeldInv, AllHeld
<1>4. CalledAlone'
  BY <1>1, <1>2 DEF HeldInv, CalledAlone
<1> QED BY <1>3, <1>4 DEF HeldInv

(* Every step keeps hold of the requests it has not called back.           *)
LEMMA NextHeld ==
    ASSUME IInv, MidsOrdered, HeldInv, [Next]_vars
    PROVE  HeldInv'
<1>1. ASSUME NEW p \in Pdus, Cancel(p) \/ FreeCalled(p) PROVE HeldInv'
  <2>1. FreePdu(p) /\ UNCHANGED <<mid, pdu, calls>>
    BY <1>1 DEF Cancel, FreeCalled, hdrVars, recvVars, histVars
  <2> QED BY <2>1, FreeHeld
<1>3. CASE Untouched
  <2>1. \A x : Unwritten(x)' <=> Unwritten(x)
    BY <1>3 DEF Untouched, Unwritten
  <2>2. \A x : x \in Held => x \in Held'
    BY <1>3, <2>1, HeldFacts DEF Untouched
  <2> QED BY <1>3, <2>2 DEF Untouched, HeldInv, AllHeld, CalledAlone
<1>4. CASE SweepStep
  <2>1. UNCHANGED <<mid, pdu>>
    BY <1>4, SweepEffect
  <2>2. CASE UNCHANGED <<live, freed, chain, outqueue, waitqueue, calls>>
    <3>1. \A x : Unwritten(x)' <=> Unwritten(x)
      BY <2>2 DEF Unwritten
    <3>2. \A x : x \in Held => x \in Held'
      BY <2>1, <2>2, <3>1, HeldFacts
    <3> QED BY <2>1, <2>2, <3>2 DEF HeldInv, AllHeld, CalledAlone
  <2>3. ASSUME NEW p \in Pdus, FreePdu(p), p \in Range(outqueue) \cup Range(waitqueue),
               calls' = [calls EXCEPT ![p] = Append(@, "IO_TIMEOUT")]
        PROVE  HeldInv'
    <3>1. calls \in [Pdus -> Seq(Statuses)] /\ calls[p] = <<>>
      BY <2>3 DEF IInv, TypeOK, LinksSound, Awaits
    <3>2. \A x \in Pdus \ {p} : calls'[x] = calls[x]
      BY <2>3, <3>1
    <3> QED BY <2>1, <2>3, <3>1, <3>2, FreeHeld
  <2> QED BY <1>4, <2>2, <2>3, SweepEffect
<1> QED BY <1>1, <1>3, <1>4, UntouchedBy, AllocateHeld, CompoundHeld, QueueHeld, WriteHeld,
           HeaderHeld, BodyHeld, DestroyHeld DEF Next, Application, Service

-----------------------------------------------------------------------------
(* The promise of module Requests. *)

(* What the state of a request says about the engine, now and after the    *)
(* step, and when a step leaves it.                                        *)
LEMMA StateFacts ==
    /\ \A p, s : calls[p] = <<s>> => RequestState(p) = s
    /\ \A p, s : calls'[p] = <<s>> => RequestState(p)' = s
    /\ \A p : calls[p] = <<>> /\ p \notin cancelled /\ p \notin freed =>
                  RequestState(p) = IF mid[p] # NoMid THEN "pending" ELSE "idle"
    /\ \A p : calls'[p] = <<>> /\ p \notin cancelled' /\ p \notin freed' =>
                  RequestState(p)' = IF mid'[p] # NoMid THEN "pending" ELSE "idle"
    /\ \A p : calls'[p] = <<>> /\ p \in cancelled' => RequestState(p)' = "cancelled"
    /\ \A p : calls'[p] = <<>> /\ p \notin cancelled' /\ p \in freed' =>
                  RequestState(p)' = "dropped"
    /\ \A p : /\ calls'[p] = calls[p]
              /\ calls[p] # <<>> \/ /\ p \in cancelled' <=> p \in cancelled
                                    /\ p \in freed' <=> p \in freed
                                    /\ mid'[p] = NoMid <=> mid[p] = NoMid
              => RequestState(p)' = RequestState(p)
<1>1. \A s : <<s>> # <<>> /\ Len(<<s>>) = 1 /\ <<s>>[1] = s
  OBVIOUS
<1>2. \A p, s : calls[p] = <<s>> => RequestState(p) = s
  BY <1>1 DEF RequestState
<1>3. \A p, s : calls'[p] = <<s>> => RequestState(p)' = s
  BY <1>1 DEF RequestState
<1>4. \A p : calls[p] = <<>> /\ p \notin cancelled /\ p \notin freed =>
                 RequestState(p) = IF mid[p] # NoMid THEN "pending" ELSE "idle"
  BY DEF RequestState
<1>5. \A p : /\ calls'[p] = <<>> /\ p \notin cancelled' /\ p \notin freed' =>
                    RequestState(p)' = IF mid'[p] # NoMid THEN "pending" ELSE "idle"
             /\ calls'[p] = <<>> /\ p \in cancelled' => RequestState(p)' = "cancelled"
             /\ calls'[p] = <<>> /\ p \notin cancelled' /\ p \in freed' =>
                    RequestState(p)' = "dropped"
  BY DEF RequestState
<1>6. \A p : /\ calls'[p] = calls[p]
             /\ calls[p] # <<>> \/ /\ p \in cancelled' <=> p \in cancelled
                                   /\ p \in freed' <=> p \in freed
                                   /\ mid'[p] = NoMid <=> mid[p] = NoMid
             => RequestState(p)' = RequestState(p)
  BY DEF RequestState
<1> QED BY <1>2, <1>3, <1>4, <1>5, <1>6

(* A request that was called back has one outcome; one that is pending is  *)
(* one the engine holds.                                                   *)
LEMMA PendingIsHeld ==
    ASSUME IInv, MidsOrdered, HeldInv, NEW p \in Pdus, RequestState(p) = "pending"
    PROVE  p \in Held
<1>1. calls[p] = <<>>
  <2>1. calls[p] \in Seq(Statuses) /\ Len(calls[p]) <= 1
    BY DEF IInv, TypeOK, CallsSound
  <2>2. calls[p] # <<>> => Len(calls[p]) = 1 /\ calls[p][1] \in Statuses
    <3>1. PICK c : c = calls[p]
      OBVIOUS
    <3>2. c \in Seq(Statuses) /\ Len(c) <= 1
      BY <2>1, <3>1
    <3>3. Len(c) \in Nat /\ c \in [1..Len(c) -> Statuses] /\ (c = <<>> <=> Len(c) = 0)
      BY <3>2, SeqElements, LenProperties
    <3>4. c # <<>> => Len(c) = 1 /\ c[1] \in Statuses
      BY <3>2, <3>3
    <3> QED BY <3>1, <3>4
  <2> QED BY <2>2 DEF RequestState, Statuses
<1>2. p \notin freed /\ mid[p] # NoMid
  BY <1>1 DEF RequestState
<1> QED BY <1>1, <1>2 DEF MidsOrdered, HeldInv, AllHeld

(* How the requests of S are before and after a step.                      *)
Were(S, st) == \A p \in S : p \in Pdus /\ RequestState(p) \in st
Become(S, st) == \A p \in S : RequestState(p)' = st
Stay(S) == \A p \in S : RequestState(p)' = RequestState(p)

(* The requests compounded behind p, and what a step makes of them.        *)
Rest(p) == Range(chain[p]) \ {p}
RestStay(S) == \A p \in S : Rest(p)' = Rest(p)
RestGone(h) == Rest(h)' = {} /\ RestStay(Pdus \ {h})

(* What a compound is before and after a step.                             *)
LEMMA CompoundIs ==
    ASSUME NEW h \in Pdus
    PROVE  /\ Promise!Compound(h) = {h} \cup Rest(h)
           /\ RestGone(h) => [p \in Pdus |-> Rest(p)]' = Promise!Alone(h)
<1>1. \A p \in Pdus : [x \in Pdus |-> Range(chain[x]) \ {x}][p] = Rest(p)
  BY DEF Rest
<1>2. Promise!Compound(h) = {h} \cup Rest(h)
  BY <1>1 DEF Promise!Compound
<1>3. ASSUME RestGone(h) PROVE [p \in Pdus |-> Rest(p)]' = Promise!Alone(h)
  <2>1. \A p \in Pdus : Rest(p)' = IF p = h THEN {} ELSE Rest(p)
    BY <1>3 DEF RestGone, RestStay
  <2>2. Promise!Alone(h) = [p \in Pdus |-> IF p = h THEN {} ELSE Rest(p)]
    BY <1>1 DEF Promise!Alone
  <2> QED BY <2>1, <2>2
<1> QED BY <1>2, <1>3

(* A step that puts q, with what is behind it, behind h.                   *)
LEMMA JoinStep ==
    ASSUME NEW h \in Pdus, NEW q \in Pdus, h # q, ctx # "destroyed", ctx' # "destroyed",
           Were({h, q}, {"idle"}), Stay(Pdus),
           Rest(h)' = Rest(h) \cup {q} \cup Rest(q), Rest(q)' = {}, RestStay(Pdus \ {h, q})
    PROVE  Promise!Next
<1>1. {h, q} \subseteq Promise!In("idle")
  BY DEF Promise!In, Were
<1>2. \A p \in Pdus : Rest(p)' = IF p = h THEN Rest(h) \cup Promise!Compound(q)
                                 ELSE IF p = q THEN {} ELSE Rest(p)
  BY CompoundIs DEF RestStay
<1>3. [p \in Pdus |-> Range(chain[p]) \ {p}]'
          = [r \in Pdus |-> IF r = h THEN [p \in Pdus |-> Range(chain[p]) \ {p}][h]
                                           \cup Promise!Compound(q)
                            ELSE IF r = q THEN {}
                            ELSE [p \in Pdus |-> Range(chain[p]) \ {p}][r]]
  BY <1>2 DEF Rest
<1>4. Promise!Join(h, q)
  BY <1>1, <1>3 DEF Promise!Join, Stay
<1> QED BY <1>4 DEF Promise!Next

(* A step that submits the compound of h, and may send it.                 *)
LEMMA SubmitStep ==
    ASSUME NEW h \in Pdus, NEW S, S = {h} \cup Rest(h), ctx # "destroyed", ctx' # "destroyed",
           Were(S, {"idle"}), Become(S, "pending"), Stay(Pdus \ S),
           RestStay(Pdus) \/ RestGone(h)
    PROVE  Promise!Next
<1>1. Promise!Compound(h) = S
  BY CompoundIs
<1>2. S \subseteq Promise!In("idle")
  BY DEF Promise!In, Were
<1>3. [p \in Pdus |-> RequestState(p)]' = Promise!Become(S, "pending")
  BY DEF Promise!Become, Become, Stay
<1>4. \/ UNCHANGED [p \in Pdus |-> Rest(p)]
      \/ [p \in Pdus |-> Rest(p)]' = Promise!Alone(h)
  BY CompoundIs DEF RestStay
<1>5. Promise!Submit(h)
  BY <1>1, <1>2, <1>3, <1>4 DEF Promise!Submit, Rest
<1> QED BY <1>5 DEF Promise!Next

(* A step that sends the compound of h.                                    *)
LEMMA SendStep ==
    ASSUME NEW h \in Pdus, NEW S, S = {h} \cup Rest(h), ctx # "destroyed", ctx' # "destroyed",
           Were(S, {"pending"}), Stay(Pdus), RestGone(h)
    PROVE  Promise!Next
<1>1. Promise!Compound(h) = S
  BY CompoundIs
<1>2. S \subseteq Promise!In("pending")
  BY DEF Promise!In, Were
<1>3. UNCHANGED [p \in Pdus |-> RequestState(p)]
  BY DEF Stay
<1>4. [p \in Pdus |-> Rest(p)]' = Promise!Alone(h)
  BY CompoundIs
<1>5. Promise!Send(h)
  BY <1>1, <1>2, <1>3, <1>4 DEF Promise!Send, Rest
<1> QED BY <1>5 DEF Promise!Next

(* A step that cancels the compound of h.                                  *)
LEMMA CancelStep ==
    ASSUME NEW h \in Pdus, NEW S, S = {h} \cup Rest(h), ctx # "destroyed", ctx' # "destroyed",
           Were(S, {"idle", "pending"}), Become(S, "cancelled"), Stay(Pdus \ S), RestGone(h)
    PROVE  Promise!Next
<1>1. Promise!Compound(h) = S
  BY CompoundIs
<1>2. S \subseteq Promise!In("idle") \cup Promise!In("pending")
  BY DEF Promise!In, Were
<1>3. [p \in Pdus |-> RequestState(p)]' = Promise!Become(S, "cancelled")
  BY DEF Promise!Become, Become, Stay
<1>4. [p \in Pdus |-> Rest(p)]' = Promise!Alone(h)
  BY CompoundIs
<1>5. Promise!Cancel(h)
  BY <1>1, <1>2, <1>3, <1>4 DEF Promise!Cancel, Rest
<1> QED BY <1>5 DEF Promise!Next

(* A request that heads a chain is behind no other. *)
LEMMA HeadIsFree ==
    ASSUME IInv, NEW p \in Pdus, chain[p] # <<>>
    PROVE  ~Promise!Tied(p)
<1>1. \A h \in Pdus : [x \in Pdus |-> Range(chain[x]) \ {x}][h] = Range(chain[h]) \ {h}
  OBVIOUS
<1>2. \A h \in Pdus : p \in Range(chain[h]) => p = h
  BY ChainFacts DEF IInv
<1> QED BY <1>1, <1>2 DEF Promise!Tied

(* A step that answers the request p.                                      *)
LEMMA ReplyStep ==
    ASSUME NEW p \in Pdus, ctx # "destroyed", ctx' # "destroyed",
           Rest(p) = {}, ~Promise!Tied(p), RestStay(Pdus),
           Were({p}, {"pending"}), Become({p}, "REPLY"), Stay(Pdus \ {p})
    PROVE  Promise!Next
<1>1. p \in Promise!In("pending")
  BY DEF Promise!In, Were
<1>2. [x \in Pdus |-> RequestState(x)]' = Promise!Become({p}, "REPLY")
  BY DEF Promise!Become, Become, Stay
<1>3. UNCHANGED [x \in Pdus |-> Rest(x)]
  BY DEF RestStay
<1>4. [x \in Pdus |-> Range(chain[x]) \ {x}][p] = {}
  BY DEF Rest
<1>5. Promise!Reply(p)
  BY <1>1, <1>2, <1>3, <1>4 DEF Promise!Reply, Rest
<1> QED BY <1>5 DEF Promise!Next

(* A step in which p times out and the requests behind it are dropped.     *)
LEMMA TimeOutStep ==
    ASSUME NEW p \in Pdus, NEW S, S = Rest(p), ctx # "destroyed", ctx' # "destroyed",
           ~Promise!Tied(p), RestGone(p),
           Were(S \cup {p}, {"pending"}), Become({p}, "IO_TIMEOUT"), Become(S, "dropped"),
           Stay(Pdus \ (S \cup {p}))
    PROVE  Promise!Next
<1>1. Promise!Compound(p) = S \cup {p} /\ [x \in Pdus |-> Range(chain[x]) \ {x}][p] = S
  BY CompoundIs DEF Rest
<1>2. S \cup {p} \subseteq Promise!In("pending")
  BY DEF Promise!In, Were
<1>3. [x \in Pdus |-> RequestState(x)]'
          = [Promise!Become(S, "dropped") EXCEPT ![p] = "IO_TIMEOUT"]
  BY DEF Promise!Become, Become, Stay
<1>4. [x \in Pdus |-> Rest(x)]' = Promise!Alone(p)
  BY CompoundIs
<1>5. Promise!TimeOut(p)
  BY <1>1, <1>2, <1>3, <1>4 DEF Promise!TimeOut, Rest
<1> QED BY <1>5 DEF Promise!Next

(* The step that tells the pending requests that are behind no other of    *)
(* the shutdown, and drops those that are.                                 *)
LEMMA ShutdownStep ==
    ASSUME ctx # "destroyed", ctx' = "destroyed",
           \A p \in Pdus :
               IF RequestState(p) = "pending"
               THEN /\ RequestState(p)' = IF Promise!Tied(p) THEN "dropped" ELSE "SHUTDOWN"
                    /\ Rest(p)' = {}
               ELSE RequestState(p)' = RequestState(p) /\ Rest(p)' = Rest(p)
    PROVE  Promise!Next
<1>1. \A p \in Pdus : /\ [x \in Pdus |-> RequestState(x)][p] = RequestState(p)
                      /\ [x \in Pdus |-> Range(chain[x]) \ {x}][p] = Rest(p)
  BY DEF Rest
<1>2. [x \in Pdus |-> RequestState(x)]'
          = [r \in Pdus |-> IF [x \in Pdus |-> RequestState(x)][r] # "pending"
                            THEN [x \in Pdus |-> RequestState(x)][r]
                            ELSE IF Promise!Tied(r) THEN "dropped" ELSE "SHUTDOWN"]
  BY <1>1
<1>3. [x \in Pdus |-> Rest(x)]'
          = [r \in Pdus |-> IF [x \in Pdus |-> RequestState(x)][r] = "pending" THEN {}
                            ELSE [x \in Pdus |-> Range(chain[x]) \ {x}][r]]
  BY <1>1
<1>4. Promise!Shutdown
  BY <1>2, <1>3 DEF Promise!Shutdown, Rest
<1> QED BY <1>4 DEF Promise!Next

(* A step that changes the state of no request.                            *)
LEMMA StutterStep ==
    ASSUME Stay(Pdus), RestStay(Pdus), ctx' = "destroyed" <=> ctx = "destroyed"
    PROVE  UNCHANGED Promise!vars
<1>1. UNCHANGED [x \in Pdus |-> RequestState(x)] /\ UNCHANGED [x \in Pdus |-> Rest(x)]
  BY DEF Stay, RestStay
<1> QED BY <1>1 DEF Promise!vars, Rest

(* Writing a chain, or a part of it, sends it or leaves it as it is.       *)
LEMMA LinkRest ==
    ASSUME IInv, NEW h \in Pdus, chain[h] # <<>>, Linked(h) \/ Moved(h)
    PROVE  RestStay(Pdus) \/ RestGone(h)
<1>1. CASE Linked(h)
  BY <1>1 DEF Linked, RestStay, Rest
<1>2. CASE Moved(h)
  <2>1. \A g \in Pdus : Range(<<g>>) = {g}
    BY SmallSeq
  <2>2. h \in Range(chain[h])
    BY ChainFacts DEF IInv
  <2>3. \A g \in Range(chain[h]) : g \in Pdus /\ (g # h => chain[g] = <<>>)
    BY ChainFacts DEF IInv
  <2>4. \A g \in Pdus : chain[g] = <<>> => Range(chain[g]) = {}
    BY ChainFacts DEF IInv
  <2>5. Rest(h)' = {}
    BY <1>2, <2>1, <2>2 DEF Moved, Rest
  <2>6. ASSUME NEW g \in Pdus \ {h} PROVE Rest(g)' = Rest(g)
    <3>1. CASE g \in Range(chain[h])
      BY <1>2, <2>1, <2>3, <2>4, <3>1 DEF Moved, Rest
    <3>2. CASE g \notin Range(chain[h])
      BY <1>2, <3>2 DEF Moved, Rest
    <3> QED BY <3>1, <3>2
  <2> QED BY <2>5, <2>6 DEF RestGone, RestStay
<1> QED BY <1>1, <1>2

(* Freeing p leaves nothing behind it. *)
LEMMA FreeRest ==
    ASSUME IInv, NEW p \in Pdus, FreePdu(p)
    PROVE  RestGone(p)
<1>1. Range(chain'[p]) = {} /\ \A h \in Pdus \ {p} : chain'[h] = chain[h]
  BY FreeFacts DEF IInv, LinksSound
<1> QED BY <1>1 DEF RestGone, RestStay, Rest

(* smb2_add_compound_pdu joins two chains. *)
LEMMA CompoundKeeps ==
    ASSUME IInv, NEW h \in Pdus, NEW q \in Pdus, AddCompoundPdu(h, q)
    PROVE  Promise!Next
<1>1. /\ UNCHANGED <<mid, freed, calls, cancelled, ctx>>
      /\ mid[h] = NoMid /\ mid[q] = NoMid
      /\ \A g \in Pdus \ {h, q} : chain'[g] = chain[g]
  BY CompoundEffect
<1>2. /\ h # q /\ h \in live /\ q \in live /\ chain[h] # <<>> /\ chain[q] # <<>>
      /\ chain' = [chain EXCEPT ![h] = @ \o chain[q], ![q] = <<>>]
      /\ ctx # "destroyed"
  BY DEF AddCompoundPdu, Unqueued, AppRuns, Active
<1>3. chain \in [Pdus -> Seq(Pdus)] /\ chain[h] \in Seq(Pdus) /\ chain[q] \in Seq(Pdus)
  BY DEF IInv, TypeOK
<1>4. Range(chain'[h]) = Range(chain[h]) \cup Range(chain[q]) /\ Range(chain'[q]) = {}
  <2>1. chain'[h] = chain[h] \o chain[q] /\ chain'[q] = <<>>
    BY <1>2, <1>3
  <2>2. Range(<<>>) = {} /\ Range(chain[h] \o chain[q]) = Range(chain[h]) \cup Range(chain[q])
    BY <1>3, ConcatSeq, SmallSeq
  <2> QED BY <2>1, <2>2
<1>5. h \in Range(chain[h]) /\ q \in Range(chain[q]) /\ h \notin Range(chain[q])
  BY <1>2, ChainFacts DEF IInv
<1>6. Rest(h)' = Rest(h) \cup {q} \cup Rest(q) /\ Rest(q)' = {}
  BY <1>2, <1>4, <1>5 DEF Rest
<1>7. RestStay(Pdus \ {h, q})
  BY <1>1 DEF RestStay, Rest
<1>8. Stay(Pdus)
  BY <1>1, StateFacts DEF Stay
<1>9. Were({h, q}, {"idle"})
  <2>1. \A p \in {h, q} : calls[p] = <<>> /\ p \notin freed /\ p \notin cancelled
    BY <1>1, <1>2 DEF IInv, CallsSound, ChainsSound
  <2> QED BY <1>1, <2>1, StateFacts DEF Were
<1> QED BY <1>1, <1>2, <1>6, <1>7, <1>8, <1>9, JoinStep

(* smb2_queue_pdu submits the chain. *)
LEMMA QueueKeeps ==
    ASSUME IInv, NEW h \in Pdus, QueuePdu(h)
    PROVE  Promise!Next
<1> DEFINE S == Range(chain[h])
<1>1. /\ S \subseteq Pdus /\ chain[h] # <<>> /\ h \in S
      /\ \A p \in S : mid[p] = NoMid /\ mid'[p] \in Nat
      /\ \A p \in Pdus \ S : mid'[p] = mid[p]
  BY QueueNumbers
<1>2. UNCHANGED <<calls, cancelled, freed, ctx>> /\ ctx # "destroyed"
  BY DEF QueuePdu, histVars, AppRuns, Active
<1>3. \A p \in S : p \notin freed /\ p \notin cancelled /\ calls[p] = <<>>
  BY <1>1 DEF IInv, ChainsSound, CallsSound
<1>8. S = {h} \cup Rest(h)
  BY <1>1 DEF Rest
<1>9. RestStay(Pdus) \/ RestGone(h)
  BY <1>1, QueueEffect, LinkRest
<1> HIDE DEF S
<1>4. \A p \in S : mid'[p] # NoMid
  BY <1>1 DEF NoMid
<1>5. Were(S, {"idle"})
  BY <1>1, <1>3, StateFacts DEF Were
<1>6. Become(S, "pending")
  BY <1>2, <1>3, <1>4, StateFacts DEF Become
<1>7. Stay(Pdus \ S)
  BY <1>1, <1>2, StateFacts DEF Stay
<1> QED BY <1>2, <1>5, <1>6, <1>7, <1>8, <1>9, SubmitStep

(* smb2_write_to_socket sends the chain at the head of outqueue.           *)
LEMMA WriteKeeps ==
    ASSUME IInv, WriteToSocket
    PROVE  Promise!Next \/ UNCHANGED Promise!vars
<1>1. PICK h \in Range(outqueue) : h \in Pdus /\ (Linked(h) \/ Moved(h))
  BY WriteToSocketEffect
<1>2. chain[h] # <<>> /\ mid[h] # NoMid /\ calls[h] = <<>>
  BY DEF IInv, LinksSound, Awaits
<1>3. UNCHANGED <<mid, freed, calls, cancelled, ctx>> /\ ctx # "destroyed"
  BY DEF WriteToSocket, hdrVars, histVars, Active
<1>4. Stay(Pdus)
  BY <1>3, StateFacts DEF Stay
<1>5. CASE RestStay(Pdus)
  BY <1>3, <1>4, <1>5, StutterStep
<1>6. CASE RestGone(h)
  <2> DEFINE S == Range(chain[h])
  <2>1. h \in S /\ S \subseteq Pdus
    BY <1>1, <1>2, ChainFacts DEF IInv
  <2>2. \A p \in S : p \notin freed /\ p \notin cancelled /\ calls[p] = <<>> /\ mid[p] # NoMid
    BY <1>1, <1>2, <2>1 DEF IInv, ChainsSound, CallsSound
  <2>3. S = {h} \cup Rest(h)
    BY <2>1 DEF Rest
  <2> HIDE DEF S
  <2>4. Were(S, {"pending"})
    BY <2>1, <2>2, StateFacts DEF Were
  <2> QED BY <1>1, <1>3, <1>4, <1>6, <2>3, <2>4, SendStep
<1> QED BY <1>1, <1>2, <1>5, <1>6, LinkRest

(* Cancelling cancels the request and those compounded behind it.          *)
LEMMA CancelKeeps ==
    ASSUME IInv, NEW p \in Pdus, Cancel(p)
    PROVE  Promise!Next
<1> DEFINE S == Range(chain[p])
<1>1. S \subseteq Pdus
  BY ChainFacts DEF IInv
<1>2. /\ UNCHANGED <<calls, mid, ctx>> /\ ctx # "destroyed" /\ calls[p] = <<>>
      /\ cancelled' = cancelled \cup S /\ freed' = freed \cup S
      /\ chain[p] # <<>> /\ FreePdu(p)
  BY DEF Cancel, FreePdu, hdrVars, ctxVars, AppRuns, Active
<1>3. \A x \in S : x \notin freed /\ x \notin cancelled /\ calls[x] = <<>>
  BY <1>1, <1>2 DEF IInv, ChainsSound, CallsSound
<1>7. S = {p} \cup Rest(p)
  BY <1>2, ChainFacts DEF Rest, IInv
<1> HIDE DEF S
<1>4. Were(S, {"idle", "pending"})
  BY <1>1, <1>3, StateFacts DEF Were
<1>5. Become(S, "cancelled")
  BY <1>2, <1>3, StateFacts DEF Become
<1>6. Stay(Pdus \ S)
  BY <1>2, StateFacts DEF Stay
<1>8. RestGone(p)
  BY <1>2, FreeRest
<1> QED BY <1>2, <1>4, <1>5, <1>6, <1>7, <1>8, CancelStep

(* Freeing a request after its callback changes the state of none: none is *)
(* linked behind it any more.                                              *)
LEMMA FreeCalledKeeps ==
    ASSUME IInv, HeldInv, NEW p \in Pdus, FreeCalled(p)
    PROVE  UNCHANGED Promise!vars
<1>1. /\ UNCHANGED <<calls, mid, cancelled, ctx>> /\ calls[p] # <<>>
      /\ freed' = freed \cup Range(chain[p]) /\ FreePdu(p)
  BY DEF FreeCalled, FreePdu, hdrVars, ctxVars, histVars
<1>2. Range(chain[p]) \subseteq {p}
  BY <1>1 DEF HeldInv, CalledAlone
<1>3. Stay(Pdus)
  BY <1>1, <1>2, StateFacts DEF Stay
<1>4. RestStay(Pdus)
  BY <1>1, <1>2, FreeRest DEF RestGone, RestStay, Rest
<1> QED BY <1>1, <1>3, <1>4, StutterStep

(* A reply is delivered to the request it was read for, or it is an oplock *)
(* break and concerns none.                                                *)
LEMMA BodyKeeps ==
    ASSUME IInv, RecvBody, pdu \notin freed
    PROVE  Promise!Next \/ UNCHANGED Promise!vars
<1>1. /\ UNCHANGED <<mid, ctx, cancelled>>
      /\ calls' = [p \in Pdus |-> IF p = pdu THEN Append(calls[p], "REPLY") ELSE calls[p]]
      /\ \/ pdu \in Pdus /\ FreePdu(pdu)
         \/ UNCHANGED <<freed, chain>>
  BY BodyEffect
<1>2. ctx # "destroyed"
  BY DEF RecvBody, Active
<1>3. CASE pdu \notin Pdus
  <2>1. \A p \in Pdus : calls'[p] = calls[p]
    BY <1>1, <1>3
  <2>2. Stay(Pdus) /\ RestStay(Pdus)
    BY <1>1, <1>3, <2>1, StateFacts DEF Stay, RestStay, Rest
  <2> QED BY <1>1, <2>2, StutterStep
<1>4. CASE pdu \in Pdus
  <2>1. PICK p \in Pdus : p = pdu
    BY <1>4
  <2>2. /\ chain[p] = <<p>> /\ chain[p] # <<>> /\ mid[p] # NoMid /\ calls[p] = <<>>
        /\ p \notin cancelled /\ p \notin freed
    BY <2>1, ReadAwaits DEF Awaits
  <2>3. Range(chain[p]) = {p}
    BY <2>2, SmallSeq
  <2>4. FreePdu(p) \/ UNCHANGED <<freed, chain>>
    BY <1>1, <2>1, Zenon
  <2>5. \A x \in Pdus \ {p} : x \in freed' <=> x \in freed
    BY <2>3, <2>4 DEF FreePdu
  <2>6. calls'[p] = Append(<<>>, "REPLY") /\ \A x \in Pdus \ {p} : calls'[x] = calls[x]
    BY <1>1, <2>1, <2>2
  <2>7. Append(<<>>, "REPLY") = <<"REPLY">>
    OBVIOUS
  <2>8. Were({p}, {"pending"})
    BY <2>2, StateFacts DEF Were
  <2>9. calls'[p] = <<"REPLY">>
    BY <2>6, <2>7
  <2>10. Become({p}, "REPLY")
    BY <2>9, StateFacts DEF Become
  <2>11. Stay(Pdus \ {p})
    BY <1>1, <2>5, <2>6, StateFacts DEF Stay
  <2>12. Rest(p) = {}
    BY <2>3 DEF Rest
  <2>13. RestStay(Pdus)
    <3>1. CASE FreePdu(p)
      BY <2>12, <3>1, FreeRest DEF RestGone, RestStay
    <3>2. CASE chain' = chain
      BY <3>2 DEF RestStay, Rest
    <3> QED BY <2>4, <3>1, <3>2
  <2>14. ~Promise!Tied(p)
    BY <2>2, HeadIsFree
  <2> QED BY <1>1, <1>2, <2>8, <2>10, <2>11, <2>12, <2>13, <2>14, ReplyStep
<1> QED BY <1>3, <1>4

(* A request that times out takes the requests behind it in its chain with *)
(* it, which are dropped.                                                  *)
LEMMA SweepKeeps ==
    ASSUME IInv, SweepStep
    PROVE  Promise!Next \/ UNCHANGED Promise!vars
<1>1. UNCHANGED <<mid, ctx, cancelled>> /\ ctx = "active"
  BY SweepEffect
<1>2. CASE UNCHANGED <<live, freed, chain, outqueue, waitqueue, calls>>
  <2>1. Stay(Pdus) /\ RestStay(Pdus)
    BY <1>1, <1>2, StateFacts DEF Stay, RestStay, Rest
  <2> QED BY <1>1, <2>1, StutterStep
<1>3. ASSUME NEW p \in Range(outqueue) \cup Range(waitqueue), p \in Pdus, FreePdu(p),
             calls' = [calls EXCEPT ![p] = Append(@, "IO_TIMEOUT")]
      PROVE  Promise!Next
  <2> DEFINE S == Rest(p)
  <2>1. /\ calls \in [Pdus -> Seq(Statuses)] /\ calls[p] = <<>> /\ mid[p] # NoMid
        /\ chain[p] # <<>>
    BY <1>3 DEF IInv, TypeOK, LinksSound, Awaits
  <2>2. p \in Range(chain[p]) /\ Range(chain[p]) \subseteq Pdus
    BY <1>3, <2>1, ChainFacts DEF IInv
  <2>3. \A x \in S \cup {p} : /\ x \notin freed /\ x \notin cancelled /\ x \in Pdus
                              /\ calls[x] = <<>> /\ mid[x] # NoMid
    BY <1>3, <2>1, <2>2 DEF IInv, ChainsSound, CallsSound, Rest
  <2>4. freed' = freed \cup S \cup {p}
    BY <1>3, <2>2 DEF FreePdu, Rest
  <2>8. p \notin S
    BY DEF Rest
  <2>13. ~Promise!Tied(p) /\ RestGone(p)
    BY <1>3, <2>1, HeadIsFree, FreeRest
  <2>14. S = Rest(p)
    OBVIOUS
  <2> HIDE DEF S
  <2>5. calls'[p] = Append(<<>>, "IO_TIMEOUT") /\ \A x \in Pdus \ {p} : calls'[x] = calls[x]
    BY <1>3, <2>1
  <2>6. Append(<<>>, "IO_TIMEOUT") = <<"IO_TIMEOUT">>
    OBVIOUS
  <2>7. calls'[p] = <<"IO_TIMEOUT">>
    BY <2>5, <2>6
  <2>9. Were(S \cup {p}, {"pending"})
    BY <2>3, StateFacts DEF Were
  <2>10. Become({p}, "IO_TIMEOUT")
    BY <2>7, StateFacts DEF Become
  <2>11. Become(S, "dropped")
    BY <1>1, <2>3, <2>4, <2>5, <2>8, StateFacts DEF Become
  <2>12. Stay(Pdus \ (S \cup {p}))
    BY <1>1, <2>4, <2>5, StateFacts DEF Stay
  <2> QED BY <1>1, <1>3, <2>9, <2>10, <2>11, <2>12, <2>13, <2>14, TimeOutStep
<1> QED BY <1>2, <1>3, SweepEffect

(* The teardown leaves no request pending, and tells every one that is not *)
(* behind another.                                                         *)
LEMMA DestroyKeeps ==
    ASSUME IInv, MidsOrdered, HeldInv, DestroyContext
    PROVE  Promise!Next
<1>1. /\ UNCHANGED <<mid, cancelled>> /\ ctx # "destroyed" /\ ctx' = "destroyed"
      /\ freed' = freed \cup Held /\ Heads \subseteq Held /\ Held \ cancelled \subseteq live
      /\ \A p \in Held : p \in Pdus /\ chain'[p] = <<>>
      /\ \A p \in Pdus \ Held : chain'[p] = chain[p]
      /\ \A p \in Pdus : p \in Heads => calls'[p] = <<"SHUTDOWN">>
      /\ \A p \in Pdus : p \notin Heads => calls'[p] = calls[p]
      /\ \A p \in Held \ cancelled : calls[p] = <<>> /\ mid[p] # NoMid
  BY DestroyEffect
<1>2. Range(<<>>) = {}
  BY SmallSeq
<1>3. ASSUME NEW p \in Pdus, RequestState(p) = "pending"
      PROVE  /\ RequestState(p)' = IF Promise!Tied(p) THEN "dropped" ELSE "SHUTDOWN"
             /\ Rest(p)' = {}
  <2>1. p \in Held
    BY <1>3, PendingIsHeld
  <2>2. p \notin cancelled
    BY <1>3, CancelledGone DEF RequestState
  <2>3. Rest(p)' = {}
    BY <1>1, <1>2, <2>1 DEF Rest
  <2>4. CASE p \in Heads
    <3>1. chain[p] # <<>>
      BY <2>2, <2>4 DEF Heads, IInv, LinksSound, Awaits
    <3>2. ~Promise!Tied(p)
      BY <3>1, HeadIsFree
    <3>3. RequestState(p)' = "SHUTDOWN"
      BY <1>1, <2>4, StateFacts
    <3> QED BY <2>3, <3>2, <3>3
  <2>5. CASE p \notin Heads
    <3>1. PICK h \in Range(outqueue) : p \in Range(chain[h])
      BY <2>1, <2>2, <2>5, HeldFacts DEF Heads, Unwritten
    <3>2. h \in Pdus /\ h # p
      BY <2>5, ChainFacts DEF Heads, IInv
    <3>3. Promise!Tied(p)
      BY <3>1, <3>2 DEF Promise!Tied
    <3>4. calls'[p] = <<>> /\ p \notin cancelled' /\ p \in freed'
      BY <1>1, <2>1, <2>2, <2>5
    <3>5. RequestState(p)' = "dropped"
      BY <3>4, StateFacts
    <3> QED BY <2>3, <3>3, <3>5
  <2> QED BY <2>4, <2>5
<1>4. ASSUME NEW p \in Pdus, RequestState(p) # "pending"
      PROVE  RequestState(p)' = RequestState(p) /\ Rest(p)' = Rest(p)
  <2>1. CASE p \in cancelled
    <3>1. p \in freed /\ chain[p] = <<>> /\ calls[p] = <<>> /\ p \notin Heads
      BY <2>1, CancelledGone DEF Heads
    <3>2. chain'[p] = <<>>
      BY <1>1, <3>1
    <3>3. calls'[p] = calls[p] /\ p \in cancelled' /\ p \in freed'
      BY <1>1, <2>1, <3>1
    <3> QED BY <1>1, <2>1, <3>1, <3>2, <3>3, StateFacts DEF Rest
  <2>2. CASE p \notin cancelled
    <3>1. p \notin Held
      <4>1. SUFFICES ASSUME p \in Held PROVE FALSE
        OBVIOUS
      <4>2. calls[p] = <<>> /\ mid[p] # NoMid /\ p \in live
        BY <1>1, <2>2, <4>1
      <4>3. p \notin freed
        BY <4>2 DEF IInv, ChainsSound
      <4> QED BY <1>4, <2>2, <4>2, <4>3, StateFacts
    <3>2. p \notin Heads /\ calls'[p] = calls[p] /\ chain'[p] = chain[p]
          /\ (p \in freed' <=> p \in freed)
      BY <1>1, <3>1
    <3> QED BY <1>1, <3>2, StateFacts DEF Rest
  <2> QED BY <2>1, <2>2
<1>5. \A p \in Pdus :
          IF RequestState(p) = "pending"
          THEN /\ RequestState(p)' = IF Promise!Tied(p) THEN "dropped" ELSE "SHUTDOWN"
               /\ Rest(p)' = {}
          ELSE RequestState(p)' = RequestState(p) /\ Rest(p)' = Rest(p)
  BY <1>3, <1>4
<1> QED BY <1>1, <1>5, ShutdownStep

(* Every step of the engine is a step of the promise, or leaves what it    *)
(* speaks of alone.                                                        *)
LEMMA NextKeeps ==
    ASSUME IInv, MidsOrdered, HeldInv, [Next]_vars
    PROVE  Promise!Next \/ UNCHANGED Promise!vars
<1>1. ASSUME UNCHANGED <<mid, freed, calls, cancelled>>, RestStay(Pdus),
             ctx' = "destroyed" <=> ctx = "destroyed"
      PROVE  UNCHANGED Promise!vars
  <2>1. Stay(Pdus)
    BY <1>1, StateFacts DEF Stay
  <2> QED BY <1>1, <2>1, StutterStep
<1>2. ASSUME NEW p \in Pdus, NEW c \in Charges, AllocatePdu(p, c) PROVE UNCHANGED Promise!vars
  <2>1. /\ UNCHANGED <<mid, freed, calls, cancelled, ctx>>
        /\ chain[p] = <<>> /\ chain'[p] = <<p>>
        /\ \A h \in Pdus \ {p} : chain'[h] = chain[h]
    BY <1>2, AllocateEffect
  <2>2. Range(<<>>) = {} /\ Range(<<p>>) = {p}
    BY SmallSeq
  <2>3. RestStay(Pdus)
    BY <2>1, <2>2 DEF RestStay, Rest
  <2> QED BY <1>1, <2>1, <2>3
<1>5. CASE Untouched
  <2>1. RestStay(Pdus)
    BY <1>5 DEF Untouched, RestStay, Rest
  <2> QED BY <1>1, <1>5, <2>1 DEF Untouched
<1>7. CASE RecvHeader
  <2>1. UNCHANGED <<mid, freed, chain, calls, cancelled>> /\ ctx = "active"
    BY <1>7 DEF RecvHeader, hdrVars, histVars, pduVars, Active
  <2>2. ctx' = ctx \/ ctx' = "failed"
    BY <1>7 DEF RecvHeader, DiscardRest, TakePdu
  <2>3. RestStay(Pdus)
    BY <2>1 DEF RestStay, Rest
  <2> QED BY <1>1, <2>1, <2>2, <2>3
<1> QED BY <1>2, <1>5, <1>7, UntouchedBy, CompoundKeeps, QueueKeeps, WriteKeeps, CancelKeeps,
           FreeCalledKeeps, BodyKeeps, SweepKeeps, DestroyKeeps DEF Next, Application, Service

(* The engine implements the promise of module Requests: a request gets at *)
(* most one outcome, the outcome is final, a compound is submitted, sent   *)
(* and cancelled as a whole, none is dropped without a callback but those  *)
(* still behind one that times out or is shut down, and                    *)
(* smb2_destroy_context leaves none pending.                               *)
THEOREM PromiseKept == Spec => KeepsPromise
<1>1. Init => MidsOrdered
  BY DEF Init, MidsOrdered
<1>2. Init => HeldInv
  <2> SUFFICES ASSUME Init PROVE HeldInv
    OBVIOUS
  <2>1. live = {} /\ \A p \in Pdus : calls[p] = <<>>
    BY DEF Init
  <2> QED BY <2>1 DEF HeldInv, AllHeld, CalledAlone
<1>3. Init => Promise!Init
  <2> SUFFICES ASSUME Init PROVE Promise!Init
    OBVIOUS
  <2>1. /\ \A p \in Pdus : calls[p] = <<>> /\ mid[p] = NoMid /\ chain[p] = <<>>
        /\ cancelled = {} /\ freed = {} /\ ctx = "active"
    BY DEF Init
  <2>2. \A p \in Pdus : RequestState(p) = "idle"
    BY <2>1, StateFacts
  <2>3. \A p \in Pdus : Range(chain[p]) \ {p} = {}
    BY <2>1, SmallSeq
  <2> QED BY <2>1, <2>2, <2>3 DEF Promise!Init
<1>4. IInv /\ MidsOrdered /\ [Next]_vars => MidsOrdered'
  BY NextMids
<1>5. IInv /\ MidsOrdered /\ HeldInv /\ [Next]_vars => HeldInv'
  BY NextHeld
<1>6. IInv /\ MidsOrdered /\ HeldInv /\ [Next]_vars => [Promise!Next]_(Promise!vars)
  BY NextKeeps
<1> QED BY <1>1, <1>2, <1>3, <1>4, <1>5, <1>6, Invariance, PTL
        DEF Spec, KeepsPromise, Promise!Spec

-----------------------------------------------------------------------------
(* Credits. *)

(* What the server charges for a request.                                  *)
HeaderCost(p) == IF p \in Negotiates THEN 0 ELSE IF charge[p] = 0 THEN 1 ELSE charge[p]

(* smb2_get_credit_charge counts the credits of the requests.              *)
LEMMA RealSum ==
    ASSUME NEW S, IsFiniteSet(S), \A p \in S : RealCharge(p) \in Nat,
           NEW v, v = [p \in S |-> RealCharge(p)]
    PROVE  MapThenSumSet(RealCharge, S) = Cardinality(Pile(Cells(v, S), S))
<1> DEFINE c == [s \in SUBSET S |-> CHOOSE x \in s : TRUE]
           Q(g) == g = [s \in SUBSET S |-> IF s = {} THEN 0
                                ELSE RealCharge(CHOOSE x \in s : TRUE) + g[s \ {CHOOSE x \in s : TRUE}]]
           G == CHOOSE g : Q(g)
           w == [s \in SUBSET S |-> Cardinality(Pile(Cells(v, S), s))]
<1>1. MapThenSumSet(RealCharge, S) = G[S]
  BY DEF MapThenSumSet, MapThenFoldSet
<1>2. \A s \in SUBSET S : s # {} => c[s] \in s
  OBVIOUS
<1>3. Piles(Cells(v, S), v, S)
  BY CellPiles
<1>4. /\ w[{}] = 0
      /\ \A s \in SUBSET S : s # {} => w[s] = v[c[s]] + w[s \ {c[s]}]
      /\ \A f : Adds(f, c, v, S) => f[S] = Cardinality(Pile(Cells(v, S), S))
  <2> HIDE DEF c
  <2> QED BY <1>2, <1>3, PileAdds
<1>5. \A s \in SUBSET S : s # {} => v[c[s]] = RealCharge(CHOOSE x \in s : TRUE)
  OBVIOUS
<1>6. Q(w)
  BY <1>4, <1>5
<1>7. Q(G)
  BY <1>6
<1>8. Adds(G, c, v, S)
  BY <1>5, <1>7 DEF Adds
<1> QED BY <1>1, <1>4, <1>8

(* So does the server.                                                     *)
LEMMA CostSum ==
    ASSUME NEW S, IsFiniteSet(S), \A p \in S : HeaderCost(p) \in Nat,
           NEW v, v = [p \in S |-> HeaderCost(p)]
    PROVE  MapThenSumSet(HeaderCost, S) = Cardinality(Pile(Cells(v, S), S))
<1> DEFINE c == [s \in SUBSET S |-> CHOOSE x \in s : TRUE]
           Q(g) == g = [s \in SUBSET S |-> IF s = {} THEN 0
                          ELSE HeaderCost(CHOOSE x \in s : TRUE) + g[s \ {CHOOSE x \in s : TRUE}]]
           G == CHOOSE g : Q(g)
           w == [s \in SUBSET S |-> Cardinality(Pile(Cells(v, S), s))]
<1>1. MapThenSumSet(HeaderCost, S) = G[S]
  BY DEF MapThenSumSet, MapThenFoldSet
<1>2. \A s \in SUBSET S : s # {} => c[s] \in s
  OBVIOUS
<1>3. Piles(Cells(v, S), v, S)
  BY CellPiles
<1>4. /\ w[{}] = 0
      /\ \A s \in SUBSET S : s # {} => w[s] = v[c[s]] + w[s \ {c[s]}]
      /\ \A f : Adds(f, c, v, S) => f[S] = Cardinality(Pile(Cells(v, S), S))
  <2> HIDE DEF c
  <2> QED BY <1>2, <1>3, PileAdds
<1>5. \A s \in SUBSET S : s # {} => v[c[s]] = HeaderCost(CHOOSE x \in s : TRUE)
  OBVIOUS
<1>6. Q(w)
  BY <1>4, <1>5
<1>7. Q(G)
  BY <1>6
<1>8. Adds(G, c, v, S)
  BY <1>5, <1>7 DEF Adds
<1> QED BY <1>1, <1>4, <1>8

(* What the server takes for a chain is such a sum.                        *)
LEMMA ServerCost ==
    ASSUME NEW h
    PROVE  ServerCharge(h) = MapThenSumSet(HeaderCost, Range(chain[h]))
  BY DEF ServerCharge, MapThenSumSet, MapThenFoldSet, HeaderCost

(* The grants of a frame, numbered from its end.                           *)
GrantCells(f) == [i \in DOMAIN f |-> {Len(f) - i} \X (1..f[i].grant)]

(* The server counts all grants of a frame.                                *)
LEMMA GrantSum ==
    ASSUME NEW f \in Seq(Replies(Int))
    PROVE  /\ Piles(GrantCells(f), [i \in DOMAIN f |-> f[i].grant], DOMAIN f)
           /\ FoldLeft(LAMBDA n, r : n + r.grant, 0, f)
                  = Cardinality(Pile(GrantCells(f), DOMAIN f))
<1> DEFINE S == DOMAIN f
           v == [i \in DOMAIN f |-> f[i].grant]
           c == [s \in SUBSET S |-> Max(s)]
           Q(g) == g = [s \in SUBSET S |-> IF s = {} THEN 0
                                           ELSE g[s \ {Max(s)}] + f[Max(s)].grant]
           G == CHOOSE g : Q(g)
           w == [s \in SUBSET S |-> Cardinality(Pile(GrantCells(f), s))]
<1>1. FoldLeft(LAMBDA n, r : n + r.grant, 0, f) = G[S]
  BY DEF FoldLeft, MapThenFoldSet
<1>2. Len(f) \in Nat /\ S = 1..Len(f) /\ \A i \in S : f[i].grant \in Nat
  <2>1. Len(f) \in Nat /\ S = 1..Len(f)
    BY SeqElements
  <2>2. \A i \in S : f[i] \in Replies(Int)
    BY <2>1
  <2> QED BY <2>1, <2>2, EngineAssumption DEF Replies
<1>3. IsFiniteSet(S)
  BY <1>2, FS_Interval
<1>4. Piles(GrantCells(f), v, S)
  <2>1. ASSUME NEW i \in S
        PROVE  IsFiniteSet(GrantCells(f)[i]) /\ Cardinality(GrantCells(f)[i]) = v[i]
    <3> DEFINE n == f[i].grant
               m == Len(f) - i
    <3>1. n \in Nat
      BY <1>2
    <3>2. GrantCells(f)[i] = {m} \X (1..n)
      BY DEF GrantCells
    <3> HIDE DEF n, m
    <3>3. IsFiniteSet({m}) /\ Cardinality({m}) = 1
      BY FS_Singleton
    <3>4. IsFiniteSet(1..n) /\ Cardinality(1..n) = n
      BY <3>1, FS_Interval
    <3>5. IsFiniteSet({m} \X (1..n)) /\ Cardinality({m} \X (1..n)) = 1 * n
      BY <3>3, <3>4, FS_Product
    <3>6. 1 * n = n
      BY <3>1
    <3> QED BY <3>2, <3>5, <3>6 DEF n
  <2>2. ASSUME NEW i \in S, NEW j \in S, i # j
        PROVE  GrantCells(f)[i] \cap GrantCells(f)[j] = {}
    <3>1. Len(f) - i # Len(f) - j
      BY <1>2, <2>2
    <3>2. GrantCells(f)[i] = {Len(f) - i} \X (1..f[i].grant)
      BY DEF GrantCells
    <3>3. GrantCells(f)[j] = {Len(f) - j} \X (1..f[j].grant)
      BY DEF GrantCells
    <3> DEFINE m == Len(f) - i
               n == Len(f) - j
    <3> HIDE DEF m, n
    <3>4. \A A, B : ({m} \X A) \cap ({n} \X B) = {}
      BY <3>1 DEF m, n
    <3> QED BY <3>2, <3>3, <3>4 DEF m, n
  <2>3. \A i \in S : v[i] \in Nat
    BY <1>2
  <2> HIDE DEF v, S
  <2> QED BY <1>3, <2>1, <2>2, <2>3 DEF Piles
<1>5. \A s \in SUBSET S : s # {} => c[s] \in s
  <2> SUFFICES ASSUME NEW s \in SUBSET S, s # {} PROVE Max(s) \in s
    OBVIOUS
  <2>1. s \in SUBSET Int /\ \A x \in s : x <= Len(f)
    BY <1>2
  <2> DEFINE T == {Len(f) - x : x \in s}
  <2>2. T \in SUBSET Nat /\ T # {}
    BY <1>2, <2>1
  <2>3. PICK m \in T : \A y \in T : m <= y
    BY <2>2, LeastNat
  <2>4. PICK x \in s : m = Len(f) - x
    BY <2>3
  <2>5. ASSUME NEW y \in s PROVE x >= y
    <3>1. Len(f) - y \in T
      OBVIOUS
    <3>2. m <= Len(f) - y
      BY <2>3, <3>1
    <3> QED BY <1>2, <2>1, <2>4, <3>2
  <2> QED BY <2>5 DEF Max
<1>6. /\ w[{}] = 0
      /\ \A s \in SUBSET S : s # {} => w[s] = w[s \ {c[s]}] + v[c[s]]
      /\ \A g : Adds(g, c, v, S) => g[S] = Cardinality(Pile(GrantCells(f), S))
  <2> HIDE DEF c, v, S
  <2> QED BY <1>4, <1>5, PileAdds
<1>7. \A s \in SUBSET S : s # {} => v[c[s]] = f[Max(s)].grant /\ c[s] = Max(s)
  BY <1>5
<1>8. Q(w)
  BY <1>6, <1>7
<1>9. Q(G)
  BY <1>8
<1>10. Adds(G, c, v, S)
  BY <1>7, <1>9 DEF Adds
<1> QED BY <1>1, <1>4, <1>6, <1>10

-----------------------------------------------------------------------------
(* The credit window. *)

(* On a connection one NEGOTIATE is sent, which settles the dialect.       *)
OneNegotiate == \A p, q \in Negotiates : p = q

(* A charge of 0 is in the header of requests for dialect 0x0202 only, for *)
(* which RealCharge counts one more.                                       *)
ChargeInv ==
    /\ \A p \in live \ Negotiates : dialect # 0 /\ (dialect = 2 => charge[p] # 0)
    /\ dialect # 0 => \A p \in Negotiates : calls[p] # <<>>

(* The grants in the last m replies of the frame f.                        *)
ToCome(f, m) == Cardinality(Pile(GrantCells(f), {i \in DOMAIN f : Len(f) - i < m}))

(* The replies whose header has not been read.                             *)
Unread ==
    IF recv_state = "HEADER" THEN Len(frame)
    ELSE IF recv_state = "BODY" THEN Len(frame) - 1 ELSE 0

(* The server has counted what is still to be read of the frame.           *)
WindowInv ==
    /\ window \in Int /\ 0 <= window /\ credits <= window
    /\ ctx = "active" => credits + ToCome(frame, Unread) <= window

(* A chain costs at least what the server takes for it.                    *)
LEMMA ChainCost ==
    ASSUME IInv, ChargeInv, NEW h \in Pdus
    PROVE  /\ ServerCharge(h) \in Nat /\ CreditCharge(h) \in Nat
           /\ ServerCharge(h) <= CreditCharge(h)
<1> DEFINE S == Range(chain[h])
           v == [p \in S |-> RealCharge(p)]
           u == [p \in S |-> HeaderCost(p)]
<1>1. TypeOK /\ ChainsSound
  BY DEF IInv
<1>2. S \subseteq live /\ S \subseteq Pdus /\ chain[h] \in Seq(Pdus)
  BY <1>1, ChainFacts DEF ChainsSound
<1>3. IsFiniteSet(S)
  <2>1. Len(chain[h]) \in Nat /\ chain[h] \in Surjection(1..Len(chain[h]), S)
    <3>1. Len(chain[h]) \in Nat /\ DOMAIN chain[h] = 1..Len(chain[h])
          /\ chain[h] \in [1..Len(chain[h]) -> Pdus]
      BY <1>2, LenProperties
    <3> QED BY <3>1 DEF Range, Surjection
  <2>2. IsFiniteSet(1..Len(chain[h]))
    BY <2>1, FS_Interval
  <2> QED BY <2>1, <2>2, FS_Surjection
<1>4. \A p \in S : RealCharge(p) \in Nat /\ HeaderCost(p) \in Nat /\ HeaderCost(p) <= RealCharge(p)
  <2> TAKE p \in S
  <2>1. charge[p] \in Nat /\ dialect \in 0..2 /\ p \in live
    BY <1>1, <1>2 DEF TypeOK
  <2> QED BY <2>1 DEF RealCharge, HeaderCost, ChargeInv
<1> HIDE DEF S
<1>5. CreditCharge(h) = Cardinality(Pile(Cells(v, S), S))
  BY <1>3, <1>4, RealSum DEF CreditCharge, S
<1>6. ServerCharge(h) = Cardinality(Pile(Cells(u, S), S))
  <2>1. ServerCharge(h) = MapThenSumSet(HeaderCost, S)
    BY ServerCost DEF S
  <2> QED BY <1>3, <1>4, <2>1, CostSum
<1>7. Pile(Cells(u, S), S) \subseteq Pile(Cells(v, S), S)
  <2>1. \A p \in S : Cells(u, S)[p] \subseteq Cells(v, S)[p]
    <3> TAKE p \in S
    <3>1. 1..HeaderCost(p) \subseteq 1..RealCharge(p)
      BY <1>4
    <3>2. /\ Cells(u, S)[p] = {p} \X (1..HeaderCost(p))
          /\ Cells(v, S)[p] = {p} \X (1..RealCharge(p))
      BY DEF Cells
    <3> QED BY <3>1, <3>2
  <2> HIDE DEF u, v
  <2> QED BY <2>1 DEF Pile
<1>8. IsFiniteSet(Pile(Cells(v, S), S))
  <2>1. Piles(Cells(v, S), v, S)
    BY <1>3, <1>4, CellPiles
  <2> HIDE DEF v
  <2>2. CASE S = {}
    BY <2>2, FS_EmptySet DEF Pile
  <2>3. CASE S # {}
    BY <2>1, <2>3, PileOne
  <2> QED BY <2>2, <2>3
<1> HIDE DEF u, v
<1>9. /\ IsFiniteSet(Pile(Cells(u, S), S))
      /\ Cardinality(Pile(Cells(u, S), S)) <= Cardinality(Pile(Cells(v, S), S))
  BY <1>7, <1>8, FS_Subset
<1> QED BY <1>5, <1>6, <1>8, <1>9, FS_CardinalityType

(* A step that frees, calls back and changes neither charges nor dialect.  *)
LEMMA ChargeKept ==
    ASSUME ChargeInv, live' \subseteq live, UNCHANGED <<charge, dialect>>,
           \A p \in Pdus : calls[p] # <<>> => calls'[p] # <<>>
    PROVE  ChargeInv'
  BY EngineAssumption DEF ChargeInv

(* What has been called back stays called back.                            *)
LEMMA AppendedCalls ==
    ASSUME NEW s \in Seq(Statuses), NEW x \in Statuses
    PROVE  Append(s, x) # <<>>
  BY AppendProperties

(* Every step keeps the charges.                                           *)
LEMMA NextCharge ==
    ASSUME IInv, OneNegotiate, ChargeInv, [Next]_vars
    PROVE  ChargeInv'
<1>0. TypeOK /\ ChainsSound /\ LinksSound
  BY DEF IInv
<1>1. ASSUME NEW p \in Pdus, NEW c \in Charges, AllocatePdu(p, c) PROVE ChargeInv'
  <2>1. /\ live' = live \cup {p} /\ charge' = [charge EXCEPT ![p] = HeaderCharge(p, c)]
        /\ dialect = 0 <=> p \in Negotiates
        /\ UNCHANGED <<dialect, calls>>
    BY <1>1 DEF AllocatePdu, ctxVars, histVars
  <2>2. c # 0 /\ dialect \in 0..2 /\ charge \in [Pdus -> Nat] /\ live \subseteq Pdus
    BY <1>0, EngineAssumption DEF TypeOK
  <2>3. p \notin Negotiates => dialect # 0 /\ (dialect = 2 => charge'[p] # 0)
    BY <2>1, <2>2 DEF HeaderCharge
  <2>4. \A q \in live' : q # p => q \in live /\ charge'[q] = charge[q]
    BY <2>1, <2>2
  <2> QED BY <2>1, <2>3, <2>4 DEF ChargeInv
<1>2. ASSUME NEW h \in Pdus, NEW q \in Pdus, AddCompoundPdu(h, q) PROVE ChargeInv'
  BY <1>2, ChargeKept DEF AddCompoundPdu, hdrVars, ctxVars, histVars
<1>3. ASSUME NEW h \in Pdus, QueuePdu(h) PROVE ChargeInv'
  BY <1>3, ChargeKept DEF QueuePdu, histVars
<1>4. ASSUME NEW p \in Pdus, Cancel(p) \/ FreeCalled(p) PROVE ChargeInv'
  BY <1>4, ChargeKept DEF Cancel, FreeCalled, FreePdu, hdrVars, ctxVars, histVars
<1>5. ASSUME NEW p \in Pdus, FreeAborted(p) PROVE ChargeInv'
  BY <1>5, ChargeKept DEF FreeAborted, pduVars, hdrVars, ctxVars
<1>13. CASE RecvBody /\ pdu \in freed
  BY <1>13, ChargeKept DEF RecvBody, pduVars, hdrVars
<1>6. CASE WriteToSocket
  BY <1>6, ChargeKept DEF WriteToSocket, hdrVars, histVars
<1>7. ASSUME NEW f, RecvSpl(f) PROVE ChargeInv'
  BY <1>7, ChargeKept DEF RecvSpl, pduVars, hdrVars, ctxVars, histVars
<1>8. CASE RecvHeader
  BY <1>8, ChargeKept DEF RecvHeader, pduVars, hdrVars, histVars
<1>9. CASE RecvDiscard \/ ServiceFails \/ SweepBegin \/ Tick \/ UNCHANGED vars
  BY <1>9, ChargeKept DEF RecvDiscard, ServiceFails, SweepBegin, Tick, vars, pduVars, hdrVars,
                          ctxVars, histVars
<1>10. CASE SweepStep
  <2>1. UNCHANGED <<charge, dialect>>
    BY <1>10 DEF SweepStep, hdrVars, ctxVars
  <2>2. CASE UNCHANGED <<live, calls>>
    BY <2>1, <2>2, ChargeKept
  <2>3. ASSUME NEW p \in Pdus, FreePdu(p), calls' = [calls EXCEPT ![p] = Append(@, "IO_TIMEOUT")]
        PROVE  ChargeInv'
    <3>1. calls \in [Pdus -> Seq(Statuses)] /\ live' \subseteq live
      BY <1>0, <2>3 DEF TypeOK, FreePdu
    <3>2. \A x \in Pdus : calls'[x] = calls[x] \/ calls'[x] = Append(calls[x], "IO_TIMEOUT")
      BY <2>3, <3>1
    <3>3. \A x \in Pdus : calls[x] # <<>> => calls'[x] # <<>>
      BY <3>1, <3>2, AppendedCalls DEF Statuses
    <3> QED BY <2>1, <3>1, <3>3, ChargeKept
  <2> QED BY <1>10, <2>2, <2>3, SweepEffect
<1>11. CASE DestroyContext
  <2>1. /\ live' = live \ Held /\ UNCHANGED <<charge, dialect>>
        /\ \A p \in Pdus : calls'[p] = calls[p] \/ calls'[p] = <<"SHUTDOWN">>
    BY <1>11, DestroyEffect DEF DestroyContext, hdrVars
  <2>2. <<"SHUTDOWN">> # <<>>
    OBVIOUS
  <2> QED BY <2>1, <2>2, ChargeKept
<1>12. CASE RecvBody /\ pdu \notin freed
  <2>1. /\ calls' = [p \in Pdus |-> IF p = pdu THEN Append(calls[p], "REPLY") ELSE calls[p]]
        /\ \/ pdu \in Pdus /\ FreePdu(pdu)
           \/ live' = live
    BY <1>12, BodyEffect
  <2>2. charge' = charge /\ live' \subseteq live
    BY <1>12, <2>1 DEF RecvBody, hdrVars, FreePdu
  <2>3. calls \in [Pdus -> Seq(Statuses)]
    BY <1>0 DEF TypeOK
  <2>4. \A x \in Pdus : calls'[x] = calls[x] \/ calls'[x] = Append(calls[x], "REPLY")
    BY <2>1
  <2>5. \A x \in Pdus : Append(calls[x], "REPLY") # <<>>
    BY <2>3, AppendedCalls DEF Statuses
  <2>6. \A x \in Pdus : calls[x] # <<>> => calls'[x] # <<>>
    BY <2>4, <2>5
  <2>7. CASE pdu \in Negotiates
    <3>1. pdu \in Pdus /\ calls[pdu] = <<>>
      BY <1>12, <2>7, EngineAssumption, ReadAwaits DEF Awaits
    <3>2. dialect = 0
      BY <2>7, <3>1 DEF ChargeInv
    <3>3. live \subseteq Negotiates
      BY <3>2 DEF ChargeInv
    <3>4. calls'[pdu] # <<>>
      BY <2>1, <2>5, <3>1
    <3> QED BY <2>2, <2>7, <3>3, <3>4 DEF ChargeInv, OneNegotiate
  <2>8. CASE pdu \notin Negotiates
    <3>1. dialect' = dialect
      BY <1>12, <2>8 DEF RecvBody
    <3> QED BY <2>2, <2>6, <3>1, ChargeKept
  <2> QED BY <2>7, <2>8
<1> QED BY <1>1, <1>2, <1>3, <1>4, <1>5, <1>6, <1>7, <1>8, <1>9, <1>10, <1>11, <1>12, <1>13
        DEF Next, Application, Service

(* The grants to come are a natural number, none when nothing is to be     *)
(* read; the fold of a frame is all of them, its first reply brings its    *)
(* own, and dropping that reply drops no other.                            *)
LEMMA GrantsToCome ==
    ASSUME NEW f \in Seq(Replies(Int))
    PROVE  /\ \A m \in Int : ToCome(f, m) \in Nat
           /\ ToCome(f, 0) = 0
           /\ FoldLeft(LAMBDA n, r : n + r.grant, 0, f) = ToCome(f, Len(f))
           /\ f # <<>> =>
                  /\ Head(f).grant \in Nat
                  /\ ToCome(f, Len(f)) = Head(f).grant + ToCome(f, Len(f) - 1)
                  /\ ToCome(Tail(f), Len(Tail(f))) = ToCome(f, Len(f) - 1)
<1> DEFINE v == [i \in DOMAIN f |-> f[i].grant]
           S(m) == {i \in DOMAIN f : Len(f) - i < m}
           N(s) == Cardinality(Pile(GrantCells(f), s))
<1>1. Len(f) \in Nat /\ DOMAIN f = 1..Len(f)
  BY SeqElements
<1>2. Piles(GrantCells(f), v, DOMAIN f)
  BY GrantSum
<1>3. N({}) = 0
  BY FS_EmptySet DEF Pile
<1>4. \A s \in SUBSET DOMAIN f : N(s) \in Nat
  <2> TAKE s \in SUBSET DOMAIN f
  <2>1. CASE s = {}
    BY <1>3, <2>1
  <2>2. CASE s # {}
    <3>1. PICK x : x \in s
      BY <2>2
    <3> HIDE DEF v
    <3> QED BY <1>2, <3>1, PileOne
  <2> QED BY <2>1, <2>2
<1>5. \A m \in Int : ToCome(f, m) = N(S(m)) /\ S(m) \in SUBSET DOMAIN f
  BY DEF ToCome
<1>6. S(0) = {} /\ S(Len(f)) = DOMAIN f
  BY <1>1
<1>7. FoldLeft(LAMBDA n, r : n + r.grant, 0, f) = N(DOMAIN f)
  BY GrantSum
<1>8. ASSUME f # <<>>
      PROVE  /\ Head(f).grant \in Nat
             /\ ToCome(f, Len(f)) = Head(f).grant + ToCome(f, Len(f) - 1)
             /\ ToCome(Tail(f), Len(Tail(f))) = ToCome(f, Len(f) - 1)
  <2>1. 1 \in DOMAIN f /\ Head(f) = f[1]
    BY <1>1, <1>8, TailSeq
  <2>2. v[1] \in Nat /\ v[1] = Head(f).grant
    BY <1>2, <2>1 DEF Piles
  <2>3. N(DOMAIN f) = v[1] + N(DOMAIN f \ {1})
    <3> HIDE DEF v
    <3> QED BY <1>2, <2>1, PileOne
  <2>4. DOMAIN f \ {1} = S(Len(f) - 1)
    BY <1>1
  <2>5. ToCome(f, Len(f)) = Head(f).grant + ToCome(f, Len(f) - 1)
    BY <1>1, <1>5, <1>6, <2>2, <2>3, <2>4
  <2> DEFINE t == Tail(f)
  <2>6. /\ Len(t) = Len(f) - 1 /\ DOMAIN t = 1..(Len(f) - 1)
        /\ \A i \in 1..(Len(f) - 1) : t[i] = f[i + 1]
    BY <1>1, <1>8, HeadTailProperties, SeqElements
  <2>7. {i \in DOMAIN t : Len(t) - i < Len(t)} = DOMAIN t
    BY <1>1, <2>6
  <2>8. \A i \in DOMAIN t : i + 1 \in S(Len(f) - 1) /\ GrantCells(t)[i] = GrantCells(f)[i + 1]
    <3> TAKE i \in DOMAIN t
    <3>1. i \in 1..(Len(f) - 1) /\ i + 1 \in DOMAIN f /\ t[i] = f[i + 1]
      BY <1>1, <2>6
    <3>2. Len(t) - i = Len(f) - (i + 1)
      BY <1>1, <2>6, <3>1
    <3>3. GrantCells(t)[i] = {Len(t) - i} \X (1..t[i].grant)
      BY DEF GrantCells
    <3>4. GrantCells(f)[i + 1] = {Len(f) - (i + 1)} \X (1..f[i + 1].grant)
      BY <3>1 DEF GrantCells
    <3>5. i + 1 \in S(Len(f) - 1)
      BY <1>1, <3>1
    <3> QED BY <3>1, <3>2, <3>3, <3>4, <3>5
  <2>9. \A j \in S(Len(f) - 1) : j - 1 \in DOMAIN t /\ GrantCells(t)[j - 1] = GrantCells(f)[j]
    <3> TAKE j \in S(Len(f) - 1)
    <3>1. j - 1 \in DOMAIN t /\ (j - 1) + 1 = j
      BY <1>1, <2>6
    <3> QED BY <2>8, <3>1
  <2>10. Pile(GrantCells(t), DOMAIN t) = Pile(GrantCells(f), S(Len(f) - 1))
    <3> HIDE DEF t, S
    <3> QED BY <2>8, <2>9 DEF Pile
  <2>11. ToCome(t, Len(t)) = Cardinality(Pile(GrantCells(t), DOMAIN t))
    BY <2>7 DEF ToCome
  <2> QED BY <1>1, <1>5, <2>2, <2>5, <2>10, <2>11
<1>9. \A m \in Int : ToCome(f, m) \in Nat
  BY <1>4, <1>5
<1>10. ToCome(f, 0) = 0
  BY <1>3, <1>5, <1>6
<1>11. FoldLeft(LAMBDA n, r : n + r.grant, 0, f) = ToCome(f, Len(f))
  <2>1. ToCome(f, Len(f)) = Cardinality(Pile(GrantCells(f), S(Len(f))))
    BY DEF ToCome
  <2>2. ToCome(f, Len(f)) = Cardinality(Pile(GrantCells(f), DOMAIN f))
    BY <1>6, <2>1
  <2> HIDE DEF N, S, v
  <2> QED BY <2>2, GrantSum
<1> HIDE DEF N, S
<1> QED BY <1>8, <1>9, <1>10, <1>11

(* So is what is unread of the frame.                                      *)
LEMMA UnreadGrants ==
    ASSUME TypeOK
    PROVE  frame \in Seq(Replies(Int)) /\ Len(frame) \in Nat /\ ToCome(frame, Unread) \in Nat
<1>1. frame \in Seq(Replies(Int))
  BY DEF TypeOK
<1>2. Len(frame) \in Nat
  BY <1>1, SeqElements
<1>3. Unread \in Int
  BY <1>2 DEF Unread
<1>4. \A m \in Int : ToCome(frame, m) \in Nat
  BY <1>1, GrantsToCome
<1> QED BY <1>1, <1>2, <1>3, <1>4

(* A step that leaves the credits and the frame alone.                     *)
LEMMA WindowKept ==
    ASSUME WindowInv, UNCHANGED <<credits, window>>,
           ctx' = "active" => ctx = "active" /\ UNCHANGED <<frame, recv_state>>
    PROVE  WindowInv'
  BY DEF WindowInv, Unread

(* Writing a chain takes as much from the credits as from the window, at   *)
(* least.                                                                  *)
LEMMA WriteWindow ==
    ASSUME IInv, ChargeInv, WindowInv, NEW h \in Pdus, NEW q, WriteChain(h, q),
           UNCHANGED <<frame, recv_state, ctx>>
    PROVE  WindowInv'
<1>1. credits \in Nat /\ window \in Int /\ 0 <= window /\ credits <= window
  BY DEF IInv, TypeOK, WindowInv
<1>2. /\ ServerCharge(h) \in Nat /\ CreditCharge(h) \in Nat
      /\ ServerCharge(h) <= CreditCharge(h)
  BY ChainCost
<1>3. CreditCharge(h) <= credits
  BY <1>1 DEF WriteChain, MayWrite
<1>4. CASE UNCHANGED <<credits, peerVars>>
  BY <1>4, WindowKept DEF peerVars
<1>5. CASE /\ credits' = credits - CreditCharge(h)
           /\ UNCHANGED peerVars \/ window' = window - ServerCharge(h)
  <2>1. window' \in Int /\ 0 <= window' /\ credits' <= window'
    BY <1>1, <1>2, <1>3, <1>5 DEF peerVars
  <2>2. Unread' = Unread /\ frame' = frame /\ ctx' = ctx
    BY DEF Unread
  <2>3. ToCome(frame, Unread) \in Nat
    BY UnreadGrants DEF IInv
  <2> DEFINE t == ToCome(frame, Unread)
  <2>4. t \in Nat /\ (ctx = "active" => credits + t <= window)
    BY <2>3 DEF WindowInv
  <2> HIDE DEF t
  <2>5. ctx = "active" => credits' + t <= window'
    BY <1>1, <1>2, <1>3, <1>5, <2>4 DEF peerVars
  <2>6. ctx = "active" => credits' + ToCome(frame, Unread) <= window'
    BY <2>5 DEF t
  <2> QED BY <2>1, <2>2, <2>6 DEF WindowInv
<1> QED BY <1>4, <1>5 DEF WriteChain

(* Reading a header moves its grant from what is to come to the credits.   *)
LEMMA HeaderWindow ==
    ASSUME IInv, WindowInv, RecvHeader
    PROVE  WindowInv'
<1>1. TypeOK /\ RecvSound
  BY DEF IInv
<1>2. /\ ctx = "active" /\ recv_state = "HEADER" /\ frame' = frame /\ window' = window
      /\ credits' = credits + Head(frame).grant
      /\ ctx' = "failed" \/ recv_state' = "DISCARD" \/ recv_state' = "BODY"
  BY DEF RecvHeader, Active, DiscardRest, TakePdu, peerVars
<1>3. frame \in Seq(Replies(Int)) /\ Len(frame) \in Nat /\ frame # <<>>
  BY <1>1, <1>2, UnreadGrants DEF RecvSound
<1> DEFINE g == Head(frame).grant
           all == ToCome(frame, Len(frame))
           rest == ToCome(frame, Len(frame) - 1)
<1>4. /\ g \in Nat /\ all \in Nat /\ rest \in Nat /\ all = g + rest
      /\ ToCome(frame, 0) = 0
  <2>1. \A m \in Int : ToCome(frame, m) \in Nat
    BY <1>3, GrantsToCome
  <2>2. Len(frame) - 1 \in Int /\ Len(frame) \in Int
    BY <1>3
  <2> QED BY <1>3, <2>1, <2>2, GrantsToCome
<1>5. credits \in Nat /\ window \in Int /\ 0 <= window /\ credits + all <= window
  BY <1>1, <1>2 DEF TypeOK, WindowInv, Unread
<1>6. credits' = credits + g
  BY <1>2
<1>7. ctx' = "active" => ToCome(frame', Unread') \in {0, rest}
  BY <1>2, <1>4 DEF Unread
<1> HIDE DEF g, all, rest
<1>8. credits' <= window /\ credits' + rest <= window /\ credits' + 0 <= window
  BY <1>4, <1>5, <1>6
<1> QED BY <1>2, <1>5, <1>7, <1>8 DEF WindowInv

(* After a body the rest of the frame is what is to come.                  *)
LEMMA BodyWindow ==
    ASSUME IInv, WindowInv, RecvBody, pdu \notin freed
    PROVE  WindowInv'
<1>1. TypeOK /\ RecvSound
  BY DEF IInv
<1>2. recv_state = "BODY" /\ ctx = "active" /\ UNCHANGED <<credits, window, ctx>>
  BY DEF RecvBody, Active, peerVars
<1>3. frame \in Seq(Replies(Int)) /\ Len(frame) \in Nat /\ frame # <<>>
  BY <1>1, <1>2, UnreadGrants DEF RecvSound
<1>4. /\ frame' = Tail(frame)
      /\ recv_state' = IF Tail(frame) = <<>> THEN "SPL" ELSE "HEADER"
  BY BodyEffect
<1> DEFINE t == ToCome(frame, Unread)
<1>5. t \in Nat /\ credits \in Nat /\ window \in Int /\ credits + t <= window
  BY <1>1, <1>2, UnreadGrants DEF TypeOK, WindowInv
<1>6. Tail(frame) \in Seq(Replies(Int))
  BY <1>3, TailSeq
<1>7. ToCome(Tail(frame), Len(Tail(frame))) = t /\ ToCome(Tail(frame), 0) = 0
  BY <1>2, <1>3, <1>6, GrantsToCome DEF Unread
<1>8. ToCome(frame', Unread') \in {0, t}
  BY <1>4, <1>7 DEF Unread
<1> HIDE DEF t
<1>9. credits + 0 <= window
  BY <1>5
<1> QED BY <1>2, <1>5, <1>8, <1>9 DEF WindowInv

(* Every step keeps the window.                                            *)
LEMMA NextWindow ==
    ASSUME IInv, ChargeInv, WindowInv, [Next]_vars
    PROVE  WindowInv'
<1>0. TypeOK /\ credits \in Nat /\ window \in Int /\ 0 <= window /\ credits <= window
  BY DEF IInv, TypeOK, WindowInv
<1>1. ASSUME NEW p \in Pdus, NEW c \in Charges, AllocatePdu(p, c) PROVE WindowInv'
  BY <1>1, WindowKept DEF AllocatePdu, recvVars, ctxVars, peerVars
<1>2. ASSUME NEW h \in Pdus, NEW q \in Pdus, AddCompoundPdu(h, q) PROVE WindowInv'
  BY <1>2, WindowKept DEF AddCompoundPdu, recvVars, ctxVars, peerVars
<1>3. ASSUME NEW h \in Pdus, QueuePdu(h) PROVE WindowInv'
  <2>1. UNCHANGED <<frame, recv_state, ctx>>
    BY <1>3 DEF QueuePdu, recvVars
  <2>2. UNCHANGED <<credits, peerVars>> \/ WriteChain(h, <<>>)
    BY <1>3 DEF QueuePdu
  <2> QED BY <2>1, <2>2, WindowKept, WriteWindow DEF peerVars
<1>4. ASSUME NEW p \in Pdus, Cancel(p) \/ FreeCalled(p) PROVE WindowInv'
  BY <1>4, WindowKept DEF Cancel, FreeCalled, recvVars, ctxVars, peerVars
<1>5. ASSUME NEW p \in Pdus, FreeAborted(p) PROVE WindowInv'
  BY <1>5, WindowKept DEF FreeAborted, recvVars, ctxVars, peerVars
<1>11. CASE RecvBody /\ pdu \in freed
  BY <1>11, WindowKept DEF RecvBody, recvVars, peerVars
<1>6. CASE WriteToSocket
  <2>1. UNCHANGED <<frame, recv_state, ctx>>
    BY <1>6 DEF WriteToSocket, recvVars
  <2>2. PICK h, q : h = Head(outqueue) /\ q = Tail(outqueue)
    OBVIOUS
  <2>3. WriteChain(h, q)
    BY <1>6, <2>2, Zenon DEF WriteToSocket
  <2>4. h \in Pdus
    BY <1>0, <1>6, <2>2, TailSeq DEF TypeOK, WriteToSocket
  <2> QED BY <2>1, <2>3, <2>4, WriteWindow
<1>7. ASSUME NEW f \in Frames(owed), RecvSpl(f) PROVE WindowInv'
  <2>1. f \in Seq(Replies(Int))
    BY <1>0, FrameType DEF TypeOK
  <2> DEFINE t == ToCome(f, Len(f))
  <2>2. t \in Nat
    <3>1. Len(f) \in Int
      BY <2>1, SeqElements
    <3>2. \A m \in Int : ToCome(f, m) \in Nat
      BY <2>1, GrantsToCome
    <3> QED BY <3>1, <3>2
  <2>3. window' = window + FoldLeft(LAMBDA n, r : n + r.grant, 0, f)
    BY <1>7 DEF RecvSpl
  <2>4. FoldLeft(LAMBDA n, r : n + r.grant, 0, f) = t
    BY <2>1, GrantsToCome
  <2>5. window' = window + t
    BY <2>3, <2>4
  <2>6. recv_state' = "HEADER" /\ frame' = f /\ credits' = credits /\ ctx' = ctx
    BY <1>7 DEF RecvSpl, ctxVars
  <2>7. ToCome(frame', Unread') = t
    BY <2>6 DEF Unread
  <2> HIDE DEF t
  <2> QED BY <1>0, <2>2, <2>5, <2>6, <2>7 DEF WindowInv
<1>8. CASE RecvDiscard
  <2>1. recv_state' = "SPL" /\ frame' = <<>> /\ UNCHANGED <<credits, window>>
    BY <1>8 DEF RecvDiscard, ctxVars, peerVars
  <2>2. ToCome(frame', Unread') = 0
    <3>1. <<>> \in Seq(Replies(Int))
      BY SmallSeq
    <3>2. ToCome(<<>>, 0) = 0
      BY <3>1, GrantsToCome
    <3> QED BY <2>1, <3>2 DEF Unread
  <2> QED BY <1>0, <2>1, <2>2 DEF WindowInv
<1>9. CASE ServiceFails \/ SweepBegin \/ Tick \/ UNCHANGED vars
  BY <1>9, WindowKept DEF ServiceFails, SweepBegin, Tick, vars, recvVars, ctxVars, peerVars
<1>10. CASE SweepStep \/ DestroyContext
  BY <1>10, WindowKept DEF SweepStep, DestroyContext, recvVars, ctxVars, peerVars
<1> QED BY <1>1, <1>2, <1>3, <1>4, <1>5, <1>6, <1>7, <1>8, <1>9, <1>10, <1>11, HeaderWindow,
           BodyWindow
        DEF Next, Application, Service

(* The client never spends a credit the server did not grant: its own      *)
(* count of a chain, smb2_get_credit_charge, is never less than what the   *)
(* server takes for it, and the credits of a frame are counted one header  *)
(* at a time.                                                              *)
THEOREM CreditsSuffice ==
    ASSUME OneNegotiate
    PROVE  Spec => []CreditWindow
<1>1. Init => ChargeInv /\ WindowInv
  <2> SUFFICES ASSUME Init PROVE ChargeInv /\ WindowInv
    OBVIOUS
  <2>1. ChargeInv
    BY DEF Init, ChargeInv
  <2>2. ToCome(frame, Unread) = 0
    <3>1. <<>> \in Seq(Replies(Int))
      BY SmallSeq
    <3>2. ToCome(<<>>, 0) = 0
      BY <3>1, GrantsToCome
    <3>3. frame = <<>> /\ Unread = 0
      BY DEF Init, Unread
    <3> QED BY <3>2, <3>3
  <2>3. WindowInv
    BY <2>2 DEF Init, WindowInv
  <2> QED BY <2>1, <2>3
<1>2. IInv /\ ChargeInv /\ WindowInv /\ [Next]_vars => ChargeInv' /\ WindowInv'
  BY NextCharge, NextWindow
<1>3. WindowInv => CreditWindow
  BY DEF WindowInv, CreditWindow
<1> QED BY <1>1, <1>2, <1>3, Invariance, PTL DEF Spec
=============================================================================
