------------------------------- MODULE UdpScan -------------------------------
(***************************************************************************)
(* The UDP scan tool (tools/src/udprober.cpp): reader, processor and       *)
(* prober, the network and the capture that feeds packets to the           *)
(* processor, and a clock.                                                 *)
(*                                                                         *)
(* The capture is the one that the handlers are written for.  The reader   *)
(* of trace/reader.cpp is not: it takes trace_atom with an uint32_t and a  *)
(* size_t where the tool sends a bool and an uint32_t (udprober.cpp:121),  *)
(* and its packets come without the event_atom of udp_processor.cpp:189.   *)
(* With it every start goes the way of CaptureFails.                       *)
(***************************************************************************)
EXTENDS UdpProcessor

VARIABLE mainPc   \* "starting" | "scanning" | "failed": caf_main()

vars == <<mainPc, readerVars, processorVars, proberVars>>

Init == mainPc = "starting" /\ ProcessorInit /\ ProberInit

(* The capture runs: the processor is told to start ...                     *)
CaptureRuns ==
  /\ mainPc = "starting"
  /\ mainPc' = "scanning"
  /\ HandleOther

(* ... or it does not, and prober and processor are told to stop.           *)
CaptureFails ==
  /\ mainPc = "starting"
  /\ mainPc' = "failed"
  /\ toProber' = Append(toProber, "done")
  /\ UNCHANGED <<readerVars, processorVars, proberPc, requests, writing, pipe,
                 loopVars, done, sent, air>>

ProcessorDone == mainPc = "failed" /\ procPc = "up" /\ HandleDone /\ UNCHANGED mainPc

(* A datagram is answered by its target or by a host that cannot deliver    *)
(* it, and the capture, once it runs, sees that; or one of them is lost.    *)
Answer(t) ==
  /\ mainPc = "scanning"
  /\ HandleUdp(t) \/ HandleIcmp(t) \/ HandleOther
  /\ UNCHANGED mainPc

Lose(t) ==
  /\ air[t] > 0
  /\ air' = [air EXCEPT ![t] = @ - 1]
  /\ UNCHANGED <<mainPc, readerVars, processorVars, toProber, proberPc, requests,
                 writing, pipe, loopVars, done, sent>>

(* A unit of time goes by; ages are counted as far as anybody looks.        *)
Pass ==
  /\ procPc = "up"
  /\ age' = [a \in Addresses |-> IF a \in Busy(probing) /\ age[a] <= Timeout
                                 THEN age[a] + 1 ELSE age[a]]
  /\ sinceTick' = IF sinceTick < Interval THEN sinceTick + 1 ELSE sinceTick
  /\ UNCHANGED <<mainPc, readerVars, toReader, fromReader, procPc, asked,
                 pending, probing, reported, proberVars>>

ProcessorStep == (HandleTargets \/ Tick) /\ UNCHANGED mainPc
ReaderStep == ReadBatch /\ UNCHANGED mainPc
ProberStep ==
  (ProberActor \/ ProberLoop) /\ UNCHANGED <<mainPc, readerVars, processorVars>>

Next ==
  \/ CaptureRuns \/ CaptureFails \/ ProcessorDone
  \/ ProcessorStep \/ ReaderStep \/ ProberStep
  \/ (\E t \in Targets : Answer(t) \/ Lose(t))
  \/ Pass

Spec == Init /\ [][Next]_vars

(* Actors handle what is in their mailboxes in the order it came, so that   *)
(* no kind of message waits forever; the loop's thread is scheduled, and    *)
(* time goes by.  The network owes nothing.                                 *)
Fairness ==
  /\ WF_vars(HandleTargets /\ UNCHANGED mainPc)
  /\ WF_vars(Tick /\ UNCHANGED mainPc)
  /\ WF_vars(ReaderStep) /\ WF_vars(Pass) /\ WF_vars(ProcessorDone)
  /\ WF_vars(ProberActor /\ UNCHANGED <<mainPc, readerVars, processorVars>>)
  /\ WF_vars(ProberLoop /\ UNCHANGED <<mainPc, readerVars, processorVars>>)

FairSpec == Spec /\ Fairness

-----------------------------------------------------------------------------
(* Properties. *)

RowType == [target : Targets, how : {"udp", "icmp", "-"}]

(* Every variable has its type; a probe in progress is one to its address,  *)
(* and no more than one batch is asked for at a time.                       *)
TypeOK ==
  /\ mainPc \in {"starting", "scanning", "failed"}
  /\ file \in Seq(Targets \cup {"malformed"}) /\ position \in 0..Len(file)
  /\ toReader \in 0..1 /\ fromReader \in Seq(Seq(Targets))
  /\ procPc \in {"up", "quit"} /\ asked \in BOOLEAN
  /\ pending \in [Addresses -> Seq(Targets)]
  /\ probing \in [Addresses -> Targets \cup {None}]
  /\ \A a \in Busy(probing) : Addr[probing[a]] = a
  /\ age \in [Addresses -> 0..Timeout + 1] /\ sinceTick \in 0..Interval
  /\ reported \in Seq(RowType)
  /\ toProber \in Seq(Targets \cup {"done"})
  /\ proberPc \in {"open", "joining", "quit"}
  /\ requests \in Seq(Targets) /\ writing \in BOOLEAN /\ pipe \in 0..PipeCap
  /\ loopPc \in {"start", "poll", "dispatch", "enable", "exited"}
  /\ ready \subseteq {"notify", "write"} /\ armed \in BOOLEAN /\ done \in BOOLEAN
  /\ sent \in [Targets -> Nat] /\ air \in [Targets -> Nat]

(* A request in the queue is never forgotten: writing is on, or a byte is   *)
(* in the pipe, or the loop has taken it and is about to switch writing on. *)
(* So a full pipe, a flag that is read while it is being set, and one byte  *)
(* for many requests do no harm.                                            *)
NoLostWakeup ==
  /\ requests # <<>> => armed \/ pipe > 0 \/ loopPc = "enable"
  /\ writing => armed

Occurrences(x, seq) == Cardinality({i \in DOMAIN seq : seq[i] = x})

(* Where a target can be once it was read from the file, and how often.     *)
Read(t) == Cardinality({i \in 1..position : file[i] = t})
Coming(t) == IF fromReader = <<>> THEN 0 ELSE Occurrences(t, Head(fromReader))
Waiting(t) == Occurrences(t, pending[Addr[t]])
UnderWay(t) == IF probing[Addr[t]] = t THEN 1 ELSE 0
TargetsOf(rows) == [i \in DOMAIN rows |-> rows[i].target]
Rows(t) == Occurrences(t, TargetsOf(reported))

(* Ticks that repeat a probe before its timeout. *)
Repeats == (Timeout - 1) \div Interval

(* Every target that was read from the file is in one place, as often as it *)
(* was read: on its way, waiting, in progress, or in the output file; and   *)
(* for each time it gets no more datagrams than there are ticks before its  *)
(* timeout.                                                                 *)
EveryTargetOnce ==
  \A t \in Targets :
    /\ Read(t) = Coming(t) + Waiting(t) + UnderWay(t) + Rows(t)
    /\ sent[t] <= Read(t) * (1 + Repeats)

(* Once the capture runs, every target of the file is reported, whatever    *)
(* the network does.                                                        *)
EveryTargetReported ==
  mainPc = "scanning" ~> Len(reported) = Cardinality(WellFormed)
=============================================================================
