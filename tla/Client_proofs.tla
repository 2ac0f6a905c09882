----------------------------- MODULE Client_proofs -----------------------------
(***************************************************************************)
(* Proofs about Client, for every set of servers, every target and every  *)
(* number of tokens.                                                       *)
(***************************************************************************)
EXTENDS Client, Counting_proofs

Sids == Servers \cup {CloseSignal}

\* Only a client that is off is past the first statement of close().
ClosingIsOff ==
  /\ header_sent # {} => ~on
  /\ \A s \in Servers :
       listener_pc[s] \in {"close_q", "close_commer", "close_fc", "close_ctl", "raised"}
         => ~on

\* The probe: before the first result of a server there is no token for it until
\* its controller has put one and waits for its syncer, and then there is one, unless
\* the generator died of it because the server is gone.
Probe(s) ==
  /\ ctl_pc[s] \in {"top", "first"} /\ ~inter_req_time[s] => sent[s] + Waiting(s) = 0
  /\ ctl_pc[s] = "sync" /\ ~inter_req_time[s] /\ s \notin gone => sent[s] + Waiting(s) = 1
  /\ ctl_pc[s] = "sync" /\ inter_req_time[s] => syncer[s] >= 1
  /\ ctl_pc[s] = "first" => ~inter_req_time[s]
  /\ ctl_pc[s] = "sleep" => inter_req_time[s]
  /\ inter_req_time[s] <=> handled[s] > 0
  /\ ~inter_req_time[s] => syncer[s] = 0 /\ sent[s] + Waiting(s) <= 1
  /\ in_flight[s] + handled[s] <= sent[s]
  /\ on /\ s \notin gone => in_flight[s] + handled[s] = sent[s]

AfterOff == (on => sent_after_off = 0) /\ AtMostOneJobAfterOff

ClientInv ==
  ClientTypeOK /\ ClosingIsOff /\ AfterOff /\ \A s \in Servers : Probe(s)

\* Results that were taken and not counted yet are in their listeners; whoever
\* counts, and whoever closes, has seen no more results than were taken.
Uncounted == {s \in Servers : listener_pc[s] \in {"count", "count_write"}}

CountsInv ==
  /\ num_jobs_finished + Cardinality(Uncounted) <= SumOver(handled)
  /\ \A s \in Servers : listener_pc[s] = "count_write" =>
       count_read[s] + Cardinality(Uncounted) <= SumOver(handled)
  /\ (~on \/ \E s \in Servers : listener_pc[s] = "close_off") =>
       SumOver(handled) >= NumJobsToFinish

-----------------------------------------------------------------------------
(* The steps that touch no queue, or only append the close signal, change  *)
(* no number of tokens.                                                    *)

LEMMA WaitingType == ClientTypeOK => \A s \in Servers : Waiting(s) \in Nat
<1> SUFFICES ASSUME ClientTypeOK, NEW s \in Servers PROVE Waiting(s) \in Nat
  OBVIOUS
<1>1. fc_sid_q \in Seq(Sids) /\ sid_q \in Seq(Sids)
  BY DEF ClientTypeOK, Sids
<1>2. Occurrences(s, fc_sid_q) \in Nat /\ Occurrences(s, sid_q) \in Nat
  BY <1>1, OccurrencesType
<1> QED
  BY <1>2 DEF Waiting

LEMMA SameQueues ==
  UNCHANGED <<fc_sid_q, sid_q>> => \A t \in Servers : Waiting(t)' = Waiting(t)
  BY DEF Waiting

LEMMA AppendWaiting ==
  ASSUME ClientTypeOK, NEW e \in Sids,
         \/ fc_sid_q' = Append(fc_sid_q, e) /\ UNCHANGED sid_q
         \/ sid_q' = Append(sid_q, e) /\ UNCHANGED fc_sid_q
  PROVE  /\ fc_sid_q' \in Seq(Sids) /\ sid_q' \in Seq(Sids)
         /\ \A t \in Servers : Waiting(t)' = Waiting(t) + (IF t = e THEN 1 ELSE 0)
<1>1. fc_sid_q \in Seq(Sids) /\ sid_q \in Seq(Sids)
  BY DEF ClientTypeOK, Sids
<1>2. fc_sid_q' \in Seq(Sids) /\ sid_q' \in Seq(Sids)
  <2>1. Append(fc_sid_q, e) \in Seq(Sids) /\ Append(sid_q, e) \in Seq(Sids)
    BY <1>1, AppendProperties
  <2>2. CASE fc_sid_q' = Append(fc_sid_q, e) /\ UNCHANGED sid_q
    BY <1>1, <2>1, <2>2
  <2>3. CASE sid_q' = Append(sid_q, e) /\ UNCHANGED fc_sid_q
    BY <1>1, <2>1, <2>3
  <2> QED BY <2>2, <2>3
<1>3. ASSUME NEW t \in Servers
      PROVE  Waiting(t)' = Waiting(t) + (IF t = e THEN 1 ELSE 0)
  <2>1. /\ Occurrences(t, Append(fc_sid_q, e)) = Occurrences(t, fc_sid_q) + (IF e = t THEN 1 ELSE 0)
        /\ Occurrences(t, Append(sid_q, e)) = Occurrences(t, sid_q) + (IF e = t THEN 1 ELSE 0)
        /\ Occurrences(t, fc_sid_q) \in Nat /\ Occurrences(t, sid_q) \in Nat
    BY <1>1, OccurrencesAppend, OccurrencesType
  <2>2. CASE fc_sid_q' = Append(fc_sid_q, e) /\ UNCHANGED sid_q
    <3>1. Waiting(t)' = Occurrences(t, Append(fc_sid_q, e)) + Occurrences(t, sid_q)
      BY <2>2 DEF Waiting
    <3> QED BY <2>1, <3>1 DEF Waiting
  <2>3. CASE sid_q' = Append(sid_q, e) /\ UNCHANGED fc_sid_q
    <3>1. Waiting(t)' = Occurrences(t, fc_sid_q) + Occurrences(t, Append(sid_q, e))
      BY <2>3 DEF Waiting
    <3> QED BY <2>1, <3>1 DEF Waiting
  <2> QED BY <2>2, <2>3
<1> QED
  BY <1>2, <1>3

LEMMA TakeWaiting ==
  ASSUME ClientTypeOK, sid_q # <<>>, sid_q' = Tail(sid_q), UNCHANGED fc_sid_q
  PROVE  /\ sid_q' \in Seq(Sids)
         /\ \A t \in Servers :
              Waiting(t) = Waiting(t)' + (IF t = Head(sid_q) THEN 1 ELSE 0)
         /\ \A t \in Servers : Waiting(t)' \in Nat
<1>1. fc_sid_q \in Seq(Sids) /\ sid_q \in Seq(Sids)
  BY DEF ClientTypeOK, Sids
<1>2. Tail(sid_q) \in Seq(Sids)
  BY <1>1, HeadTailProperties
<1>3. ASSUME NEW t \in Servers
      PROVE  /\ Waiting(t) = Waiting(t)' + (IF t = Head(sid_q) THEN 1 ELSE 0)
             /\ Waiting(t)' \in Nat
  <2>1. /\ Occurrences(t, sid_q) = Occurrences(t, Tail(sid_q)) + (IF Head(sid_q) = t THEN 1 ELSE 0)
        /\ Occurrences(t, Tail(sid_q)) \in Nat /\ Occurrences(t, fc_sid_q) \in Nat
    BY <1>1, <1>2, OccurrencesTail, OccurrencesType
  <2>2. Waiting(t)' = Occurrences(t, fc_sid_q) + Occurrences(t, Tail(sid_q))
    BY DEF Waiting
  <2> QED BY <2>1, <2>2 DEF Waiting
<1> QED
  BY <1>2, <1>3

LEMMA ForwardWaiting ==
  ASSUME ClientTypeOK, Forward
  PROVE  /\ fc_sid_q' \in Seq(Sids) /\ sid_q' \in Seq(Sids)
         /\ \A t \in Servers : Waiting(t)' = Waiting(t)
<1>1. fc_sid_q \in Seq(Sids) /\ sid_q \in Seq(Sids)
  BY DEF ClientTypeOK, Sids
<1> DEFINE e == Head(fc_sid_q)
<1>2. /\ fc_sid_q # <<>>
      /\ fc_sid_q' = Tail(fc_sid_q)
      /\ sid_q' = Append(sid_q, e)
  BY DEF Forward
<1>3. e \in Sids /\ Tail(fc_sid_q) \in Seq(Sids)
  BY <1>1, <1>2, HeadTailProperties
<1>4. sid_q' \in Seq(Sids)
  BY <1>1, <1>2, <1>3, AppendProperties
<1>5. ASSUME NEW t \in Servers PROVE Waiting(t)' = Waiting(t)
  <2>1. /\ Occurrences(t, fc_sid_q) = Occurrences(t, Tail(fc_sid_q)) + (IF e = t THEN 1 ELSE 0)
        /\ Occurrences(t, Tail(fc_sid_q)) \in Nat
    BY <1>1, <1>2, <1>3, OccurrencesTail, OccurrencesType
  <2>2. /\ Occurrences(t, Append(sid_q, e)) = Occurrences(t, sid_q) + (IF e = t THEN 1 ELSE 0)
        /\ Occurrences(t, sid_q) \in Nat
    BY <1>1, <1>3, OccurrencesAppend, OccurrencesType
  <2>3. Waiting(t)' = Occurrences(t, Tail(fc_sid_q)) + Occurrences(t, Append(sid_q, e))
    BY <1>2 DEF Waiting
  <2> QED BY <2>1, <2>2, <2>3 DEF Waiting
<1> QED
  BY <1>2, <1>3, <1>4, <1>5

-----------------------------------------------------------------------------
(* Induction.                                                              *)

LEMMA ClientInit == CInit => ClientInv
<1> SUFFICES ASSUME CInit PROVE ClientInv
  OBVIOUS
<1>1. <<>> \in Seq(Servers \cup {CloseSignal})
  BY EmptySeq
<1>2. \A s \in Servers : Waiting(s) = 0
  BY OccurrencesEmpty DEF CInit, Waiting
<1>3. ClientTypeOK
  BY <1>1 DEF CInit, ClientTypeOK
<1>4. ClosingIsOff /\ AfterOff
  BY DEF CInit, ClosingIsOff, AfterOff, AtMostOneJobAfterOff
<1>5. \A s \in Servers : Probe(s)
  BY <1>2 DEF CInit, Probe
<1> QED
  BY <1>3, <1>4, <1>5 DEF ClientInv

LEMMA TopInv ==
  ASSUME ClientInv, NEW s \in Servers, Top(s)
  PROVE  ClientInv'
<1>1. /\ UNCHANGED <<ctl_on, inter_req_time, syncer, fc_sid_q, fwd_done, sid_q, gen,
                     exited, listenVars, netVars>>
      /\ ctl_pc[s] = "top"
      /\ ctl_pc' = [ctl_pc EXCEPT ![s] = IF ~ctl_on[s] THEN "done"
                       ELSE IF inter_req_time[s] THEN "sleep" ELSE "first"]
  BY DEF Top, CtlStep
<1>2. ClientTypeOK' /\ ClosingIsOff' /\ AfterOff'
  BY <1>1 DEF ClientInv, ClientTypeOK, ClosingIsOff, AfterOff, AtMostOneJobAfterOff,
              listenVars, netVars
<1>3. \A t \in Servers : Waiting(t)' = Waiting(t)
  BY <1>1, SameQueues
<1>4. ASSUME NEW t \in Servers PROVE Probe(t)'
  BY <1>1, <1>3 DEF ClientInv, ClientTypeOK, Probe, listenVars, netVars
<1> QED
  BY <1>2, <1>4 DEF ClientInv

LEMMA PutInv ==
  ASSUME ClientInv, NEW s \in Servers, PutFirst(s) \/ PutSecond(s) \/ PutNext(s)
  PROVE  ClientInv'
<1>1. /\ fc_sid_q' = Append(fc_sid_q, s)
      /\ UNCHANGED <<ctl_on, inter_req_time, fwd_done, sid_q, gen, exited, listenVars,
                     netVars>>
  BY DEF PutFirst, PutSecond, PutNext, PutToken, CtlStep
<1>2. /\ fc_sid_q' \in Seq(Sids)
      /\ \A t \in Servers : Waiting(t)' = Waiting(t) + (IF t = s THEN 1 ELSE 0)
      /\ \A t \in Servers : Waiting(t) \in Nat
  BY <1>1, AppendWaiting, WaitingType DEF ClientInv, Sids
<1>3. /\ \/ /\ ctl_pc[s] = "first" /\ ctl_pc' = [ctl_pc EXCEPT ![s] = "sync"]
            /\ UNCHANGED syncer
         \/ /\ ctl_pc[s] = "sync" /\ ctl_pc' = [ctl_pc EXCEPT ![s] = "top"]
            /\ syncer[s] > 0 /\ syncer' = [syncer EXCEPT ![s] = @ - 1]
         \/ /\ ctl_pc[s] = "sleep" /\ ctl_pc' = [ctl_pc EXCEPT ![s] = "top"]
            /\ UNCHANGED syncer
  BY DEF PutFirst, PutSecond, PutNext, CtlStep
<1>4. ClientTypeOK'
  <2>1. ctl_pc' \in [Servers -> {"top", "first", "sync", "sleep", "done"}]
    BY <1>3 DEF ClientInv, ClientTypeOK
  <2>2. syncer' \in [Servers -> Nat]
    <3>1. syncer \in [Servers -> Nat] /\ (syncer[s] > 0 => syncer[s] - 1 \in Nat)
      BY DEF ClientInv, ClientTypeOK
    <3>2. CASE UNCHANGED syncer
      BY <3>1, <3>2
    <3>3. CASE syncer[s] > 0 /\ syncer' = [syncer EXCEPT ![s] = @ - 1]
      BY <3>1, <3>3
    <3> QED BY <1>3, <3>2, <3>3
  <2> QED
    BY <1>1, <1>2, <2>1, <2>2 DEF ClientInv, ClientTypeOK, Sids, listenVars, netVars
<1>5. ClosingIsOff' /\ AfterOff'
  BY <1>1 DEF ClientInv, ClosingIsOff, AfterOff, AtMostOneJobAfterOff, listenVars, netVars
<1>6. ASSUME NEW t \in Servers PROVE Probe(t)'
  <2>1. /\ sent[t] \in Nat /\ handled[t] \in Nat /\ syncer[t] \in Nat
        /\ inter_req_time[t] \in BOOLEAN
    BY DEF ClientInv, ClientTypeOK
  <2>2. Probe(t)
    BY DEF ClientInv
  <2>3. UNCHANGED <<sent[t], handled[t], in_flight[t], on, gone, inter_req_time[t]>>
    BY <1>1 DEF listenVars, netVars
  <2>4. CASE t = s
    <3>1. Waiting(t)' = Waiting(t) + 1 /\ Waiting(t) \in Nat
      BY <1>2, <2>4
    <3>2. \/ ctl_pc[t] = "first" /\ ctl_pc'[t] = "sync" /\ syncer'[t] = syncer[t]
          \/ ctl_pc[t] = "sync" /\ ctl_pc'[t] = "top"
             /\ syncer[t] > 0 /\ syncer'[t] = syncer[t] - 1
          \/ ctl_pc[t] = "sleep" /\ ctl_pc'[t] = "top" /\ syncer'[t] = syncer[t]
      BY <1>3, <2>4 DEF ClientInv, ClientTypeOK
    <3> QED BY <2>1, <2>2, <2>3, <3>1, <3>2 DEF Probe
  <2>5. CASE t # s
    <3>1. /\ Waiting(t)' = Waiting(t) + 0 /\ Waiting(t) \in Nat
          /\ ctl_pc'[t] = ctl_pc[t] /\ syncer'[t] = syncer[t]
      BY <1>2, <1>3, <2>5 DEF ClientInv, ClientTypeOK
    <3> QED BY <2>1, <2>2, <2>3, <3>1 DEF Probe
  <2> QED BY <2>4, <2>5
<1> QED
  BY <1>4, <1>5, <1>6 DEF ClientInv

LEMMA ForwardInv ==
  ASSUME ClientInv, Forward
  PROVE  ClientInv'
<1>1. UNCHANGED <<ctlVars, gen, exited, listenVars, netVars>> /\ fwd_done' \in BOOLEAN
  BY DEF Forward
<1>2. /\ fc_sid_q' \in Seq(Sids) /\ sid_q' \in Seq(Sids)
      /\ \A t \in Servers : Waiting(t)' = Waiting(t)
  BY ForwardWaiting DEF ClientInv
<1>3. ClientTypeOK' /\ ClosingIsOff' /\ AfterOff'
  BY <1>1, <1>2
  DEF ClientInv, ClientTypeOK, ClosingIsOff, AfterOff, AtMostOneJobAfterOff, Sids,
      ctlVars, listenVars, netVars
<1>4. ASSUME NEW t \in Servers PROVE Probe(t)'
  BY <1>1, <1>2 DEF ClientInv, Probe, ctlVars, listenVars, netVars
<1> QED
  BY <1>3, <1>4 DEF ClientInv

LEMMA GeneratorInv ==
  ASSUME ClientInv, CheckOn \/ GetClose
  PROVE  ClientInv'
<1>1. UNCHANGED <<ctlVars, fc_sid_q, fwd_done, exited, listenVars, netVars>>
  BY DEF CheckOn, GetClose
<1>2. /\ sid_q' \in Seq(Sids)
      /\ \A t \in Servers : Waiting(t)' = Waiting(t)
  <2>1. CASE CheckOn
    BY <1>1, <2>1, SameQueues DEF CheckOn, ClientInv, ClientTypeOK, Sids
  <2>2. CASE GetClose
    <3>1. sid_q # <<>> /\ Head(sid_q) \notin Servers /\ sid_q' = Tail(sid_q)
      BY <2>2, ServersAssumption DEF GetClose
    <3>2. /\ sid_q' \in Seq(Sids)
          /\ \A t \in Servers : /\ Waiting(t) = Waiting(t)' + (IF t = Head(sid_q) THEN 1 ELSE 0)
                                /\ Waiting(t)' \in Nat
      BY <1>1, <3>1, TakeWaiting DEF ClientInv
    <3> QED BY <3>1, <3>2
  <2> QED BY <2>1, <2>2
<1>3. \/ gen' = IF on THEN "get" ELSE "done"
      \/ gen' = "done"
  BY DEF CheckOn, GetClose
<1>4. gen = "check" \/ gen' = "done"
  BY DEF CheckOn, GetClose
<1>5. ClientTypeOK' /\ ClosingIsOff' /\ AfterOff'
  BY <1>1, <1>2, <1>3, <1>4
  DEF ClientInv, ClientTypeOK, ClosingIsOff, AfterOff, AtMostOneJobAfterOff, Sids,
      ctlVars, listenVars, netVars
<1>6. ASSUME NEW t \in Servers PROVE Probe(t)'
  BY <1>1, <1>2 DEF ClientInv, Probe, ctlVars, listenVars, netVars
<1> QED
  BY <1>5, <1>6 DEF ClientInv

LEMMA SendJobInv ==
  ASSUME ClientInv, SendJob
  PROVE  ClientInv'
<1> DEFINE s == Head(sid_q)
<1>1. /\ UNCHANGED <<ctlVars, fc_sid_q, fwd_done, exited, listenVars, header_sent, gone, handled,
                     closers>>
      /\ s \in Servers /\ sid_q # <<>> /\ sid_q' = Tail(sid_q)
      /\ sent' = [sent EXCEPT ![s] = @ + 1]
      /\ in_flight' = IF s \in header_sent \cup gone THEN in_flight
                      ELSE [in_flight EXCEPT ![s] = @ + 1]
      /\ sent_after_off' = IF on THEN 0 ELSE sent_after_off + 1
      /\ gen = "get" /\ gen' = "check"
  BY DEF SendJob
<1>2. /\ sid_q' \in Seq(Sids)
      /\ \A t \in Servers : /\ Waiting(t) = Waiting(t)' + (IF t = s THEN 1 ELSE 0)
                            /\ Waiting(t)' \in Nat
  BY <1>1, TakeWaiting DEF ClientInv
<1> HIDE DEF s
<1>3. ClientTypeOK'
  <2>1. /\ sent' \in [Servers -> Nat] /\ in_flight' \in [Servers -> Nat]
        /\ sent_after_off' \in Nat
    BY <1>1 DEF ClientInv, ClientTypeOK
  <2> QED
    BY <1>1, <1>2, <2>1 DEF ClientInv, ClientTypeOK, Sids, ctlVars, listenVars
<1>4. ClosingIsOff' /\ AfterOff'
  BY <1>1
  DEF ClientInv, ClientTypeOK, ClosingIsOff, AfterOff, AtMostOneJobAfterOff, listenVars
<1>5. ASSUME NEW t \in Servers PROVE Probe(t)'
  <2>1. /\ sent[t] \in Nat /\ handled[t] \in Nat /\ in_flight[t] \in Nat
        /\ Waiting(t)' \in Nat
        /\ (header_sent = {} \/ ~on)
    BY <1>2 DEF ClientInv, ClientTypeOK, ClosingIsOff
  <2>2. /\ sent'[t] = sent[t] + (IF t = s THEN 1 ELSE 0)
        /\ Waiting(t) = Waiting(t)' + (IF t = s THEN 1 ELSE 0)
        /\ in_flight'[t] = in_flight[t] + (IF t = s /\ s \notin header_sent \cup gone THEN 1 ELSE 0)
        /\ handled'[t] = handled[t] /\ on' = on /\ gone' = gone
    <3>1. /\ sent \in [Servers -> Nat] /\ in_flight \in [Servers -> Nat]
      BY DEF ClientInv, ClientTypeOK
    <3>2. sent'[t] = sent[t] + (IF t = s THEN 1 ELSE 0)
      BY <1>1, <2>1, <3>1
    <3>3. in_flight'[t] = in_flight[t] + (IF t = s /\ s \notin header_sent \cup gone THEN 1 ELSE 0)
      <4>1. CASE s \in header_sent \cup gone
        BY <1>1, <2>1, <4>1
      <4>2. CASE s \notin header_sent \cup gone
        <5>1. in_flight' = [in_flight EXCEPT ![s] = @ + 1]
          BY <1>1, <4>2
        <5> QED BY <2>1, <3>1, <4>2, <5>1
      <4> QED BY <4>1, <4>2
    <3>4. handled'[t] = handled[t] /\ on' = on /\ gone' = gone
      BY <1>1 DEF listenVars
    <3> QED BY <1>2, <3>2, <3>3, <3>4
  <2>3. sent'[t] + Waiting(t)' = sent[t] + Waiting(t)
    BY <2>1, <2>2
  <2>4. /\ in_flight'[t] + handled'[t] <= sent'[t]
        /\ on /\ t \notin gone => in_flight'[t] + handled'[t] = sent'[t]
    <3>1. /\ in_flight[t] + handled[t] <= sent[t]
          /\ on /\ t \notin gone => in_flight[t] + handled[t] = sent[t]
      BY DEF ClientInv, Probe
    <3>2. CASE t = s /\ s \notin header_sent \cup gone
      BY <2>1, <2>2, <3>1, <3>2
    <3>3. CASE t = s /\ s \in header_sent \cup gone
      <4>1. (~on \/ t \in gone) /\ in_flight'[t] = in_flight[t] + 0 /\ sent'[t] = sent[t] + 1
        BY <2>1, <2>2, <3>3
      <4> QED BY <2>1, <2>2, <3>1, <4>1
    <3>4. CASE t # s
      <4>1. in_flight'[t] = in_flight[t] + 0 /\ sent'[t] = sent[t] + 0
        BY <2>2, <3>4
      <4> QED BY <2>1, <2>2, <3>1, <4>1
    <3> QED BY <3>2, <3>3, <3>4
  <2> QED
    BY <1>1, <2>3, <2>4 DEF ClientInv, Probe, ctlVars, listenVars
<1> QED
  BY <1>3, <1>4, <1>5 DEF ClientInv

LEMMA SendJobRaisesInv ==
  ASSUME ClientInv, SendJobRaises
  PROVE  ClientInv'
<1> DEFINE s == Head(sid_q)
<1>1. /\ UNCHANGED <<ctlVars, fc_sid_q, fwd_done, exited, listenVars, netVars>>
      /\ s \in gone /\ sid_q # <<>> /\ sid_q' = Tail(sid_q) /\ gen' = "raised"
  BY DEF SendJobRaises
<1>2. /\ sid_q' \in Seq(Sids)
      /\ \A t \in Servers : /\ Waiting(t) = Waiting(t)' + (IF t = s THEN 1 ELSE 0)
                            /\ Waiting(t)' \in Nat
  BY <1>1, TakeWaiting DEF ClientInv
<1> HIDE DEF s
<1>3. ClientTypeOK' /\ ClosingIsOff' /\ AfterOff'
  <2>1. /\ UNCHANGED <<ctl_pc, ctl_on, inter_req_time, syncer, on, num_jobs_finished,
                       listener_pc, count_read, in_flight, header_sent, gone, sent, handled>>
        /\ UNCHANGED <<closers, sent_after_off>>
    BY <1>1 DEF ctlVars, listenVars, netVars
  <2>2. ClientTypeOK'
    BY <1>1, <1>2, <2>1 DEF ClientInv, ClientTypeOK, Sids
  <2>3. ClosingIsOff'
    BY <2>1 DEF ClientInv, ClosingIsOff
  <2>4. AfterOff'
    BY <1>1, <2>1 DEF ClientInv, ClientTypeOK, AfterOff, AtMostOneJobAfterOff
  <2> QED BY <2>2, <2>3, <2>4
<1>4. ASSUME NEW t \in Servers PROVE Probe(t)'
  <2>1. sent[t] \in Nat
    BY DEF ClientInv, ClientTypeOK
  <2>2. UNCHANGED <<ctlVars, listenVars, netVars>>
    BY <1>1
  <2>3. CASE t = s
    BY <1>1, <1>2, <2>1, <2>2, <2>3 DEF ClientInv, Probe, ctlVars, listenVars, netVars
  <2>4. CASE t # s
    <3>1. Waiting(t) = Waiting(t)' + 0 /\ Waiting(t)' \in Nat
      BY <1>2, <2>4
    <3> QED BY <2>2, <3>1 DEF ClientInv, Probe, ctlVars, listenVars, netVars
  <2> QED BY <2>3, <2>4
<1> QED
  BY <1>3, <1>4 DEF ClientInv

\* What was under way to a server that stops is not owed any more.
LEMMA StopInv ==
  ASSUME ClientInv, NEW s \in Servers, Stop(s)
  PROVE  ClientInv'
<1>1. /\ UNCHANGED <<ctlVars, queueVars, listenVars, header_sent, sent, handled, closers,
                     sent_after_off>>
      /\ gone' = gone \cup {s}
      /\ \E n \in 0..in_flight[s] : in_flight' = [in_flight EXCEPT ![s] = n]
  BY DEF Stop
<1>2. PICK n \in 0..in_flight[s] : in_flight' = [in_flight EXCEPT ![s] = n]
  BY <1>1
<1>3. in_flight' \in [Servers -> Nat]
  BY <1>2 DEF ClientInv, ClientTypeOK
<1>4. ClientTypeOK' /\ ClosingIsOff' /\ AfterOff'
  BY <1>1, <1>3
  DEF ClientInv, ClientTypeOK, ClosingIsOff, AfterOff, AtMostOneJobAfterOff,
      ctlVars, queueVars, listenVars
<1>5. ASSUME NEW t \in Servers PROVE Probe(t)'
  <2>1. Waiting(t)' = Waiting(t)
    BY <1>1, SameQueues DEF queueVars
  <2>2. /\ sent[t] \in Nat /\ handled[t] \in Nat /\ in_flight[t] \in Nat
        /\ in_flight'[t] \in Nat /\ in_flight'[t] <= in_flight[t]
        /\ t \notin gone' => in_flight'[t] = in_flight[t]
    BY <1>1, <1>2, <1>3 DEF ClientInv, ClientTypeOK
  <2>3. t \notin gone' => t \notin gone
    BY <1>1
  <2> QED BY <1>1, <2>1, <2>2, <2>3 DEF ClientInv, Probe, ctlVars, listenVars
<1> QED
  BY <1>4, <1>5 DEF ClientInv

\* The end of the process changes nothing that is owed.
LEMMA ExitInv ==
  ASSUME ClientInv, Exit
  PROVE  ClientInv'
<1>1. UNCHANGED <<ctlVars, fc_sid_q, fwd_done, sid_q, gen, listenVars, netVars>> /\ exited' = TRUE
  BY DEF Exit
<1>2. \A t \in Servers : Waiting(t)' = Waiting(t)
  BY <1>1, SameQueues
<1>3. /\ UNCHANGED <<ctl_pc, ctl_on, inter_req_time, syncer, on, num_jobs_finished,
                     listener_pc, count_read, in_flight, header_sent, gone, sent, handled>>
      /\ UNCHANGED <<fc_sid_q, fwd_done, sid_q, gen, closers, sent_after_off>>
  BY <1>1 DEF ctlVars, listenVars, netVars
<1>4. ClientTypeOK'
  BY <1>1, <1>3 DEF ClientInv, ClientTypeOK
<1>5. ClosingIsOff'
  BY <1>3 DEF ClientInv, ClosingIsOff
<1>6. AfterOff'
  BY <1>3 DEF ClientInv, AfterOff, AtMostOneJobAfterOff
<1>7. ASSUME NEW t \in Servers PROVE Probe(t)'
  BY <1>2, <1>3 DEF ClientInv, Probe
<1> QED
  BY <1>4, <1>5, <1>6, <1>7 DEF ClientInv

LEMMA RecvResultInv ==
  ASSUME ClientInv, NEW s \in Servers, RecvResult(s)
  PROVE  ClientInv'
<1>1. /\ UNCHANGED <<ctl_pc, ctl_on, fc_sid_q, sid_q, on, num_jobs_finished, count_read,
                     header_sent, gone, sent, closers, sent_after_off, fwd_done, gen, exited>>
      /\ in_flight[s] > 0
      /\ in_flight' = [in_flight EXCEPT ![s] = @ - 1]
      /\ handled' = [handled EXCEPT ![s] = @ + 1]
      /\ inter_req_time' = [inter_req_time EXCEPT ![s] = TRUE]
      /\ syncer' = IF inter_req_time[s] THEN syncer ELSE [syncer EXCEPT ![s] = @ + 1]
      /\ listener_pc' = [listener_pc EXCEPT ![s] = "count"]
  BY DEF RecvResult, ListenStep
<1>2. \A t \in Servers : Waiting(t)' = Waiting(t) /\ Waiting(t) \in Nat
  BY <1>1, SameQueues, WaitingType DEF ClientInv
<1>3. /\ ClientTypeOK'
      /\ ClosingIsOff' /\ AfterOff'
  <2>1. /\ in_flight' \in [Servers -> Nat] /\ handled' \in [Servers -> Nat]
        /\ inter_req_time' \in [Servers -> BOOLEAN] /\ syncer' \in [Servers -> Nat]
    <3>1. /\ in_flight \in [Servers -> Nat] /\ handled \in [Servers -> Nat]
          /\ inter_req_time \in [Servers -> BOOLEAN] /\ syncer \in [Servers -> Nat]
      BY DEF ClientInv, ClientTypeOK
    <3>2. in_flight' \in [Servers -> Nat] BY <1>1, <3>1
    <3>3. handled' \in [Servers -> Nat] BY <1>1, <3>1
    <3>4. inter_req_time' \in [Servers -> BOOLEAN] BY <1>1, <3>1
    <3>5. syncer' \in [Servers -> Nat] BY <1>1, <3>1
    <3> QED BY <3>2, <3>3, <3>4, <3>5
  <2>2. ClientTypeOK'
    BY <1>1, <2>1 DEF ClientInv, ClientTypeOK
  <2>3. ClosingIsOff' /\ AfterOff'
    BY <1>1 DEF ClientInv, ClientTypeOK, ClosingIsOff, AfterOff, AtMostOneJobAfterOff
  <2> QED BY <2>2, <2>3
<1>4. ASSUME NEW t \in Servers PROVE Probe(t)'
  <2>1. CASE t = s
    <3>1. sent[s] > 0
      BY <1>1 DEF ClientInv, ClientTypeOK, Probe
    <3>2. /\ sent'[s] = sent[s] /\ ctl_pc'[s] = ctl_pc[s] /\ inter_req_time'[s] = TRUE
          /\ in_flight'[s] = in_flight[s] - 1 /\ handled'[s] = handled[s] + 1
          /\ syncer'[s] = IF inter_req_time[s] THEN syncer[s] ELSE syncer[s] + 1
      BY <1>1 DEF ClientInv, ClientTypeOK
    <3>3. /\ sent[s] \in Nat /\ in_flight[s] \in Nat /\ handled[s] \in Nat
          /\ syncer[s] \in Nat /\ inter_req_time[s] \in BOOLEAN
      BY DEF ClientInv, ClientTypeOK
    <3> QED BY <1>1, <1>2, <2>1, <3>1, <3>2, <3>3 DEF ClientInv, Probe
  <2>2. CASE t # s
    BY <1>1, <1>2, <2>2 DEF ClientInv, ClientTypeOK, Probe
  <2> QED BY <2>1, <2>2
<1> QED
  BY <1>3, <1>4 DEF ClientInv

\* The other steps of a listener change no probe.
LEMMA CountInv ==
  ASSUME ClientInv, NEW s \in Servers, ReadCount(s) \/ WriteCount(s) \/ TestTarget(s)
  PROVE  ClientInv'
<1>1. UNCHANGED <<ctlVars, queueVars, on, netVars>>
  BY DEF ReadCount, WriteCount, TestTarget, ListenStep, queueVars
<1>2. \E pc \in {"recv", "count_write", "test", "close_off"} :
        listener_pc' = [listener_pc EXCEPT ![s] = pc]
  BY DEF ReadCount, WriteCount, TestTarget, ListenStep
<1>3. num_jobs_finished' \in Nat /\ count_read' \in [Servers -> Nat]
  <2>1. /\ num_jobs_finished \in Nat /\ count_read \in [Servers -> Nat]
        /\ count_read[s] + 1 \in Nat
    BY DEF ClientInv, ClientTypeOK
  <2>2. CASE ReadCount(s) BY <2>1, <2>2 DEF ReadCount
  <2>3. CASE WriteCount(s) BY <2>1, <2>3 DEF WriteCount
  <2>4. CASE TestTarget(s) BY <2>1, <2>4 DEF TestTarget
  <2> QED BY <2>2, <2>3, <2>4
<1>4. /\ ClientTypeOK'
      /\ ClosingIsOff' /\ AfterOff'
  <2>1. listener_pc' \in [Servers -> {"recv", "count", "count_write", "test", "close_off",
                             "close_q", "close_commer", "close_fc", "close_ctl", "raised"}]
    BY <1>2 DEF ClientInv, ClientTypeOK
  <2>2. ClientTypeOK'
    BY <1>1, <1>3, <2>1 DEF ClientInv, ClientTypeOK, ctlVars, queueVars, netVars
  <2>3. ClosingIsOff' /\ AfterOff'
    BY <1>1, <1>2
    DEF ClientInv, ClientTypeOK, ClosingIsOff, AfterOff, AtMostOneJobAfterOff,
        queueVars, netVars
  <2> QED BY <2>2, <2>3
<1>5. ASSUME NEW t \in Servers PROVE Probe(t)'
  BY <1>1, SameQueues DEF ClientInv, Probe, ctlVars, queueVars, netVars
<1> QED
  BY <1>4, <1>5 DEF ClientInv

LEMMA CloseInv ==
  ASSUME ClientInv, NEW s \in Servers, Close(s)
  PROVE  ClientInv'
<1>1. /\ UNCHANGED <<ctl_pc, inter_req_time, syncer, num_jobs_finished, count_read, gen,
                     fwd_done, exited, in_flight, gone, sent, handled, sent_after_off>>
      /\ ctl_on' \in [Servers -> BOOLEAN] /\ closers' \subseteq Servers
  BY DEF Close, CloseOff, CloseQueue, CloseHeaders, CloseHeadersRaise, CloseFlowControl, CloseControllers,
         ListenStep, ctlVars, netVars, ClientInv, ClientTypeOK
<1>2. /\ listener_pc[s] = "close_off" \/ ~on
      /\ ~on'
      /\ header_sent' \subseteq Servers
      /\ \E pc \in {"recv", "close_q", "close_commer", "close_fc", "close_ctl", "raised"} :
           listener_pc' = [listener_pc EXCEPT ![s] = pc]
  BY DEF Close, CloseOff, CloseQueue, CloseHeaders, CloseHeadersRaise, CloseFlowControl, CloseControllers,
         ListenStep, netVars, ClientInv, ClientTypeOK, ClosingIsOff
<1>3. /\ fc_sid_q' \in Seq(Sids) /\ sid_q' \in Seq(Sids)
      /\ \A t \in Servers : Waiting(t)' = Waiting(t)
  <2>1. CASE UNCHANGED <<fc_sid_q, sid_q>>
    BY <2>1, SameQueues DEF ClientInv, ClientTypeOK, Sids
  <2>2. CASE \/ fc_sid_q' = Append(fc_sid_q, CloseSignal) /\ UNCHANGED sid_q
             \/ sid_q' = Append(sid_q, CloseSignal) /\ UNCHANGED fc_sid_q
    <3>1. /\ fc_sid_q' \in Seq(Sids) /\ sid_q' \in Seq(Sids)
          /\ \A t \in Servers : Waiting(t)' = Waiting(t) + (IF t = CloseSignal THEN 1 ELSE 0)
      BY <2>2, AppendWaiting DEF ClientInv, Sids
    <3> QED BY <3>1, WaitingType, ServersAssumption DEF ClientInv
  <2> QED
    BY <2>1, <2>2
    DEF Close, CloseOff, CloseQueue, CloseHeaders, CloseHeadersRaise, CloseFlowControl, CloseControllers
<1>4. ClientTypeOK' /\ ClosingIsOff'
  <2>1. listener_pc' \in [Servers -> {"recv", "count", "count_write", "test", "close_off",
                             "close_q", "close_commer", "close_fc", "close_ctl", "raised"}]
    BY <1>2 DEF ClientInv, ClientTypeOK
  <2>2. on' \in BOOLEAN
    BY <1>2 DEF Close, CloseOff, CloseQueue, CloseHeaders, CloseHeadersRaise, CloseFlowControl,
                CloseControllers, ClientInv, ClientTypeOK
  <2>3. ClientTypeOK'
    BY <1>1, <1>2, <1>3, <2>1, <2>2 DEF ClientInv, ClientTypeOK, Sids
  <2>4. ClosingIsOff'
    BY <1>2 DEF ClosingIsOff
  <2> QED BY <2>3, <2>4
<1>5. AfterOff'
  BY <1>1, <1>2 DEF ClientInv, ClientTypeOK, AfterOff, AtMostOneJobAfterOff
<1>6. ASSUME NEW t \in Servers PROVE Probe(t)'
  BY <1>1, <1>2, <1>3 DEF ClientInv, Probe
<1> QED
  BY <1>4, <1>5, <1>6 DEF ClientInv

LEMMA ClientStep == ClientInv /\ [CNext]_clientVars => ClientInv'
<1> SUFFICES ASSUME ClientInv, [CNext]_clientVars PROVE ClientInv'
  OBVIOUS
<1>1. ASSUME NEW s \in Servers, Controller(s) PROVE ClientInv'
  BY <1>1, TopInv, PutInv DEF Controller
<1>2. ASSUME NEW s \in Servers, Listener(s) PROVE ClientInv'
  BY <1>2, RecvResultInv, CountInv, CloseInv DEF Listener
<1>3. CASE Forward BY <1>3, ForwardInv
<1>4. CASE CheckOn \/ GetClose BY <1>4, GeneratorInv
<1>5. CASE SendJob BY <1>5, SendJobInv
<1>7. CASE SendJobRaises BY <1>7, SendJobRaisesInv
<1>8. ASSUME NEW s \in Servers, Stop(s) PROVE ClientInv'
  BY <1>8, StopInv
<1>9. CASE Exit BY <1>9, ExitInv
<1>6. CASE UNCHANGED clientVars
  <2>1. UNCHANGED <<ctlVars, queueVars, listenVars, netVars>> BY <1>6 DEF clientVars
  <2>2. \A t \in Servers : Waiting(t)' = Waiting(t)
    BY <2>1, SameQueues DEF queueVars
  <2> QED
    BY <2>1, <2>2
    DEF ClientInv, ClientTypeOK, ClosingIsOff, AfterOff, AtMostOneJobAfterOff, Probe,
        ctlVars, queueVars, listenVars, netVars
<1> QED
  BY <1>1, <1>2, <1>3, <1>4, <1>5, <1>6, <1>7, <1>8, <1>9 DEF CNext

-----------------------------------------------------------------------------
(* The counts: num_jobs_finished stays behind the results.                 *)

LEMMA SumAdds ==
  ASSUME NEW f \in [Servers -> Nat], NEW s \in Servers
  PROVE  /\ SumOver(f) \in Nat
         /\ SumOver([f EXCEPT ![s] = @ + 1]) = SumOver(f) + 1
<1> DEFINE g == [f EXCEPT ![s] = @ + 1]
           F == UNION {{t} \X (1..f[t]) : t \in Servers}
           G == UNION {{t} \X (1..g[t]) : t \in Servers}
           new == <<s, f[s] + 1>>
<1>1. g \in [Servers -> Nat] /\ g[s] = f[s] + 1 /\ \A t \in Servers : t # s => g[t] = f[t]
  OBVIOUS
<1>2. SumOver(f) = Cardinality(F) /\ SumOver(g) = Cardinality(G)
  BY <1>1 DEF SumOver
<1> HIDE DEF g
<1>3. IsFiniteSet(F)
  <2> DEFINE Part(t) == {t} \X (1..f[t])
             Parts == {Part(t) : t \in Servers}
  <2>1. \A t \in Servers : IsFiniteSet(Part(t))
    <3> SUFFICES ASSUME NEW t \in Servers PROVE IsFiniteSet(Part(t))
      OBVIOUS
    <3>1. IsFiniteSet({t})
      BY FS_Singleton
    <3>2. IsFiniteSet(1..f[t])
      BY FS_Interval
    <3> QED BY <3>1, <3>2, FS_Product
  <2>2. IsFiniteSet(Servers)
    BY ServersAssumption
  <2> HIDE DEF Part
  <2>3. IsFiniteSet(Parts)
    <3> DEFINE part == [t \in Servers |-> Part(t)]
    <3>1. part \in Surjection(Servers, Parts)
      BY DEF Surjection
    <3> QED BY <2>2, <3>1, FS_Surjection
  <2>4. \A P \in Parts : IsFiniteSet(P)
    BY <2>1
  <2>5. IsFiniteSet(UNION Parts)
    BY <2>3, <2>4, FS_UNION
  <2> QED BY <2>5 DEF Part
<1>4. \A p : p \in F <=> \E t \in Servers : \E i \in 1..f[t] : p = <<t, i>>
  OBVIOUS
<1>5. \A p : p \in G <=> \E t \in Servers : \E i \in 1..g[t] : p = <<t, i>>
  OBVIOUS
<1> HIDE DEF F, G
<1>6. new \notin F
  <2> SUFFICES ASSUME new \in F PROVE FALSE
    OBVIOUS
  <2>1. PICK t \in Servers : \E i \in 1..f[t] : new = <<t, i>>
    BY <1>4
  <2>2. f[s] + 1 \in 1..f[s]
    BY <2>1
  <2> QED BY <2>2
<1>7. G = F \cup {new}
  <2>1. ASSUME NEW p \in G PROVE p \in F \cup {new}
    <3>1. PICK t \in Servers : \E i \in 1..g[t] : p = <<t, i>>
      BY <1>5, <2>1
    <3>2. PICK i \in 1..g[t] : p = <<t, i>>
      BY <3>1
    <3>3. CASE t = s /\ i = f[s] + 1
      BY <3>2, <3>3
    <3>4. CASE ~(t = s /\ i = f[s] + 1)
      <4>1. i \in 1..f[t]
        BY <1>1, <3>2, <3>4
      <4> QED BY <1>4, <3>2, <4>1
    <3> QED BY <3>3, <3>4
  <2>2. ASSUME NEW p \in F PROVE p \in G
    <3>1. PICK t \in Servers : \E i \in 1..f[t] : p = <<t, i>>
      BY <1>4, <2>2
    <3>2. PICK i \in 1..f[t] : p = <<t, i>>
      BY <3>1
    <3>3. i \in 1..g[t]
      BY <1>1, <3>2
    <3> QED BY <1>5, <3>2, <3>3
  <2>3. new \in G
    <3>1. f[s] + 1 \in 1..g[s]
      BY <1>1
    <3> QED BY <1>5, <3>1
  <2> QED BY <2>1, <2>2, <2>3
<1>8. Cardinality(F) \in Nat /\ Cardinality(G) = Cardinality(F) + 1
  BY <1>3, <1>6, <1>7, FS_AddElement, FS_CardinalityType
<1> QED BY <1>2, <1>8 DEF g

LEMMA UncountedFinite == IsFiniteSet(Uncounted) /\ Cardinality(Uncounted) \in Nat
<1>1. IsFiniteSet(Uncounted)
  BY ServersAssumption, FS_Subset DEF Uncounted
<1> QED BY <1>1, FS_CardinalityType

\* A listener takes a result, or has counted it.
LEMMA UncountedGrows ==
  ASSUME ClientTypeOK, NEW s \in Servers, listener_pc[s] = "recv",
         listener_pc' = [listener_pc EXCEPT ![s] = "count"]
  PROVE  Cardinality(Uncounted') = Cardinality(Uncounted) + 1
<1>1. listener_pc'[s] = "count" /\ \A t \in Servers : t # s => listener_pc'[t] = listener_pc[t]
  BY DEF ClientTypeOK
<1>2. s \notin Uncounted /\ Uncounted' = Uncounted \cup {s}
  BY <1>1 DEF Uncounted
<1> QED BY <1>2, UncountedFinite, FS_AddElement

LEMMA UncountedShrinks ==
  ASSUME ClientTypeOK, NEW s \in Servers, listener_pc[s] = "count_write",
         listener_pc' = [listener_pc EXCEPT ![s] = "test"]
  PROVE  Cardinality(Uncounted) = Cardinality(Uncounted') + 1 /\ Cardinality(Uncounted') \in Nat
<1>1. listener_pc'[s] = "test" /\ \A t \in Servers : t # s => listener_pc'[t] = listener_pc[t]
  BY DEF ClientTypeOK
<1> DEFINE A == Uncounted
           B == Uncounted'
<1>2. s \notin B /\ A = B \cup {s}
  BY <1>1 DEF Uncounted
<1>3. IsFiniteSet(B)
  BY <1>2, UncountedFinite, FS_Subset
<1> HIDE DEF A, B
<1>4. Cardinality(A) = Cardinality(B) + 1 /\ Cardinality(B) \in Nat
  BY <1>2, <1>3, FS_AddElement, FS_CardinalityType
<1> QED BY <1>4 DEF A, B

LEMMA CountsStep ==
  ASSUME ClientTypeOK, CountsInv, [CNext]_clientVars
  PROVE  CountsInv'
<1> DEFINE n == Cardinality(Uncounted)
           S == SumOver(handled)
<1>1. /\ n \in Nat /\ S \in Nat /\ num_jobs_finished \in Nat
      /\ count_read \in [Servers -> Nat] /\ NumJobsToFinish \in Nat
      /\ handled \in [Servers -> Nat]
      /\ listener_pc \in [Servers -> {"recv", "count", "count_write", "test", "close_off",
                        "close_q", "close_commer", "close_fc", "close_ctl", "raised"}]
  <2>1. handled \in [Servers -> Nat] /\ (Servers = {} => S \in Nat)
    <3>1. ASSUME Servers = {} PROVE S \in Nat
      <4>1. UNION {{t} \X (1..handled[t]) : t \in DOMAIN handled} = {}
        BY <3>1 DEF ClientTypeOK
      <4> QED BY <4>1, FS_EmptySet DEF SumOver
    <3> QED BY <3>1 DEF ClientTypeOK
  <2>2. S \in Nat
    BY <2>1, SumAdds
  <2> QED BY <2>1, <2>2, UncountedFinite, BoundsAssumption DEF ClientTypeOK
<1>2. /\ num_jobs_finished + n <= S
      /\ \A s \in Servers : listener_pc[s] = "count_write" => count_read[s] + n <= S
      /\ (~on \/ \E s \in Servers : listener_pc[s] = "close_off") => S >= NumJobsToFinish
  BY DEF CountsInv
<1>3. S' = SumOver(handled') /\ n' = Cardinality(Uncounted')
  OBVIOUS
<1>4. ASSUME n' \in Nat, S' \in Nat, num_jobs_finished' + n' <= S',
             \A s \in Servers : listener_pc'[s] = "count_write" => count_read'[s] + n' <= S',
             (~on' \/ \E s \in Servers : listener_pc'[s] = "close_off") => S' >= NumJobsToFinish
      PROVE  CountsInv'
  BY <1>4 DEF CountsInv
<1> HIDE DEF n, S
\* Steps that touch neither the results nor the listeners.
<1>5. CASE UNCHANGED <<handled, num_jobs_finished, count_read, listener_pc, on>>
  <2>1. n' = n /\ S' = S
    BY <1>5 DEF n, S, Uncounted
  <2> QED BY <1>1, <1>2, <1>4, <1>5, <2>1
<1>6. ASSUME NEW s \in Servers, RecvResult(s) PROVE CountsInv'
  <2>1. /\ handled' = [handled EXCEPT ![s] = @ + 1] /\ listener_pc[s] = "recv"
        /\ listener_pc' = [listener_pc EXCEPT ![s] = "count"]
        /\ UNCHANGED <<on, num_jobs_finished, count_read>>
    BY <1>6 DEF RecvResult, ListenStep
  <2>2. n' = n + 1
    BY <2>1, UncountedGrows DEF n
  <2>3. S' = S + 1
    BY <1>1, <2>1, SumAdds DEF S
  <2>4. \A t \in Servers : /\ listener_pc'[t] = "count_write" => listener_pc[t] = "count_write"
                           /\ listener_pc'[t] = "close_off" => listener_pc[t] = "close_off"
    BY <1>1, <2>1
  <2> QED BY <1>1, <1>2, <1>4, <2>1, <2>2, <2>3, <2>4
<1>7. ASSUME NEW s \in Servers, ReadCount(s) PROVE CountsInv'
  <2>1. /\ listener_pc[s] = "count" /\ listener_pc' = [listener_pc EXCEPT ![s] = "count_write"]
        /\ count_read' = [count_read EXCEPT ![s] = num_jobs_finished]
        /\ UNCHANGED <<on, num_jobs_finished, handled>>
    BY <1>7 DEF ReadCount, ListenStep, netVars
  <2>2. Uncounted' = Uncounted
    BY <1>1, <2>1 DEF Uncounted
  <2>3. n' = n /\ S' = S
    BY <2>1, <2>2 DEF n, S
  <2>4. \A t \in Servers :
          /\ listener_pc'[t] = "close_off" => listener_pc[t] = "close_off"
          /\ t # s => listener_pc'[t] = listener_pc[t] /\ count_read'[t] = count_read[t]
          /\ count_read'[s] = num_jobs_finished
    BY <1>1, <2>1
  <2> QED BY <1>1, <1>2, <1>4, <2>1, <2>3, <2>4
<1>8. ASSUME NEW s \in Servers, WriteCount(s) PROVE CountsInv'
  <2>1. /\ listener_pc[s] = "count_write" /\ listener_pc' = [listener_pc EXCEPT ![s] = "test"]
        /\ num_jobs_finished' = count_read[s] + 1
        /\ count_read' = [count_read EXCEPT ![s] = 0]
        /\ UNCHANGED <<on, handled>>
    BY <1>8 DEF WriteCount, ListenStep, netVars
  <2>2. n = n' + 1 /\ n' \in Nat /\ S' = S
    BY <2>1, UncountedShrinks DEF n, S
  <2>3. \A t \in Servers :
          /\ listener_pc'[t] = "close_off" => listener_pc[t] = "close_off"
          /\ listener_pc'[t] = "count_write" =>
               listener_pc[t] = "count_write" /\ count_read'[t] = count_read[t]
    BY <1>1, <2>1
  <2>4. count_read[s] + n <= S /\ count_read[s] \in Nat
    BY <1>1, <1>2, <2>1
  <2>5. num_jobs_finished' + n' <= S'
    BY <1>1, <2>1, <2>2, <2>4
  <2>6. ASSUME NEW t \in Servers, listener_pc'[t] = "count_write"
        PROVE  count_read'[t] + n' <= S'
    <3>1. count_read[t] + n <= S /\ count_read[t] \in Nat /\ count_read'[t] = count_read[t]
      BY <1>1, <1>2, <2>3, <2>6
    <3> QED BY <1>1, <2>2, <3>1
  <2>7. (~on' \/ \E t \in Servers : listener_pc'[t] = "close_off") => S' >= NumJobsToFinish
    BY <1>2, <2>1, <2>2, <2>3
  <2> QED BY <1>1, <1>4, <2>2, <2>5, <2>6, <2>7
<1>9. ASSUME NEW s \in Servers, TestTarget(s) PROVE CountsInv'
  <2>1. /\ listener_pc[s] = "test"
        /\ listener_pc' = [listener_pc EXCEPT ![s] =
              IF num_jobs_finished >= NumJobsToFinish /\ on THEN "close_off" ELSE "recv"]
        /\ UNCHANGED <<on, num_jobs_finished, count_read, handled>>
    BY <1>9 DEF TestTarget, ListenStep, netVars
  <2>2. Uncounted' = Uncounted
    BY <1>1, <2>1 DEF Uncounted
  <2>3. n' = n /\ S' = S
    BY <2>1, <2>2 DEF n, S
  <2>4. \A t \in Servers :
          /\ listener_pc'[t] = "close_off" =>
               listener_pc[t] = "close_off" \/ num_jobs_finished >= NumJobsToFinish
          /\ listener_pc'[t] = "count_write" => listener_pc[t] = "count_write"
    BY <1>1, <2>1
  <2>5. num_jobs_finished >= NumJobsToFinish => S >= NumJobsToFinish
    BY <1>1, <1>2
  <2> QED BY <1>1, <1>2, <1>4, <2>1, <2>3, <2>4, <2>5
<1>10. ASSUME NEW s \in Servers, Close(s) PROVE CountsInv'
  <2>1. /\ UNCHANGED <<num_jobs_finished, count_read, handled>>
        /\ listener_pc[s] \in {"close_off", "close_q", "close_commer", "close_fc", "close_ctl"}
        /\ listener_pc[s] # "close_off" => on' = on
        /\ \E pc \in {"recv", "close_q", "close_commer", "close_fc", "close_ctl", "raised"} :
             listener_pc' = [listener_pc EXCEPT ![s] = pc]
    BY <1>10 DEF Close, CloseOff, CloseQueue, CloseHeaders, CloseHeadersRaise,
         CloseFlowControl, CloseControllers, ListenStep, netVars
  <2>2. Uncounted' = Uncounted
    BY <1>1, <2>1 DEF Uncounted
  <2>3. n' = n /\ S' = S
    BY <2>1, <2>2 DEF n, S
  <2>4. \A t \in Servers :
          /\ listener_pc'[t] = "close_off" => listener_pc[t] = "close_off"
          /\ listener_pc'[t] = "count_write" => listener_pc[t] = "count_write"
    BY <1>1, <2>1
  <2> QED BY <1>1, <1>2, <1>4, <2>1, <2>3, <2>4
<1>11. ASSUME NEW s \in Servers, Controller(s) \/ Stop(s) PROVE CountsInv'
  BY <1>5, <1>11 DEF Controller, Top, PutFirst, PutSecond, PutNext, CtlStep, Stop,
                     listenVars, netVars
<1>12. CASE Forward \/ CheckOn \/ GetClose \/ SendJob \/ SendJobRaises \/ Exit
  BY <1>5, <1>12 DEF Forward, CheckOn, GetClose, SendJob, SendJobRaises, Exit, listenVars, netVars
<1>13. CASE UNCHANGED clientVars
  BY <1>5, <1>13 DEF clientVars, listenVars, netVars
<1> QED BY <1>6, <1>7, <1>8, <1>9, <1>10, <1>11, <1>12, <1>13 DEF CNext, Listener

LEMMA CountsInit == CInit => CountsInv
<1> SUFFICES ASSUME CInit PROVE CountsInv
  OBVIOUS
<1>1. Uncounted = {}
  BY DEF CInit, Uncounted
<1>2. Cardinality(Uncounted) = 0
  BY <1>1, FS_EmptySet
<1>3. SumOver(handled) = 0
  <2>1. \A s \in Servers : handled[s] = 0
    BY DEF CInit
  <2>2. UNION {{t} \X (1..handled[t]) : t \in DOMAIN handled} = {}
    BY <2>1 DEF CInit
  <2> QED BY <2>2, FS_EmptySet DEF SumOver
<1>4. /\ num_jobs_finished = 0 /\ on
      /\ \A s \in Servers : listener_pc[s] = "recv"
  BY DEF CInit
<1> QED BY <1>2, <1>3, <1>4 DEF CountsInv

-----------------------------------------------------------------------------
\* However many listeners close the client at once, at most one job leaves after
\* the flag is down, or can still leave (Client.run, Client.close).
THEOREM FewJobsAfterOff == CSpec => []AtMostOneJobAfterOff
<1>1. ClientInv => AtMostOneJobAfterOff
  BY DEF ClientInv, AfterOff
<1> QED
  BY <1>1, ClientInit, ClientStep, PTL DEF CSpec

\* A server that has not answered is probed with a single job, whatever the
\* controller, the forwarder, the generator and the listener interleave.
THEOREM StartsSlowly == CSpec => []SlowStart
<1>1. ClientInv => SlowStart
  BY DEF ClientInv, ClientTypeOK, Probe, SlowStart
<1> QED
  BY <1>1, ClientInit, ClientStep, PTL DEF CSpec

\* A controller that waits on its syncer has its probe or the probe's result on
\* the way, or its wakeup has come, unless the client is closing or the server gone.
THEOREM ProbeIsNotLost == CSpec => []ProbeIsUnderWay
<1>1. ClientInv => ProbeIsUnderWay
  <2> SUFFICES ASSUME ClientInv, NEW s \in Servers \ gone, ctl_pc[s] = "sync", on
               PROVE  Waiting(s) + in_flight[s] + syncer[s] >= 1
    BY DEF ProbeIsUnderWay
  <2>1. /\ Waiting(s) \in Nat /\ in_flight[s] \in Nat /\ syncer[s] \in Nat
        /\ sent[s] \in Nat /\ handled[s] \in Nat
    BY WaitingType DEF ClientInv, ClientTypeOK
  <2> QED BY <2>1 DEF ClientInv, Probe
<1> QED
  BY <1>1, ClientInit, ClientStep, PTL DEF CSpec

\* Every variable of the client keeps its type.
THEOREM ClientTypes == CSpec => []ClientTypeOK
<1>1. ClientInv => ClientTypeOK
  BY DEF ClientInv
<1> QED
  BY <1>1, ClientInit, ClientStep, PTL DEF CSpec

\* No interleaving of the unlocked increments of num_jobs_finished makes
\* handle_msg close the client before enough results have been handled.
THEOREM ClosesNotEarly == CSpec => []ClosesOnlyAtTarget
<1>1. CountsInv => ClosesOnlyAtTarget
  BY DEF CountsInv, ClosesOnlyAtTarget
<1>2. ClientInv => ClientTypeOK
  BY DEF ClientInv
<1>3. ClientTypeOK /\ CountsInv /\ [CNext]_clientVars => CountsInv'
  BY CountsStep
<1> QED
  BY <1>1, <1>2, <1>3, ClientInit, ClientStep, CountsInit, PTL DEF CSpec
=============================================================================
