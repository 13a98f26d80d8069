--------------------------- MODULE MCProxySession ---------------------------
(***************************************************************************)
(* ProxySession on streams of two records, the second repeated, drawn from *)
(* every kind of record the filter tells apart.                            *)
(***************************************************************************)
EXTENDS ProxySession

Rec(protocol, declared, type, command, crcOk) ==
  [protocol |-> protocol, declared |-> declared, type |-> type,
   command |-> command, crcOk |-> crcOk]

Data      == <<1, 4>>
Configure == <<1, 24>>
Unlisted  == <<1, 65>>

RecordKinds ==
  { Rec(2, 2, Data, "none", TRUE),          \* not longer than minrecl
    Rec(2, 4, Data, "none", TRUE),
    Rec(6, 2, Data, "none", FALSE),         \* corrupt
    Rec(5, 2, Unlisted, "none", TRUE),
    Rec(6, 2, Configure, "time", TRUE),
    Rec(6, 2, Configure, "time", FALSE),
    Rec(5, 2, Configure, "ip", TRUE),
    Rec(5, 2, Configure, "other", TRUE),
    Rec(9, 2, Data, "none", TRUE) }         \* malformed

StreamOf(a, b) == [p \in 0..StreamEnd |-> IF p < FrameLength(a) THEN a ELSE b]

(* Time passes on two of the streams: two frames, and a malformed prefix behind
   one; it stands still on all others. *)
TimedStreams == {StreamOf(Rec(2, 2, Data, "none", TRUE), b) :
                   b \in {Rec(6, 2, Data, "none", TRUE), Rec(9, 2, Data, "none", TRUE)}}

MCStreams == {StreamOf(a, b) : a, b \in RecordKinds} \cup TimedStreams

Conf(blockcmd, noipf, crcChecked) ==
  [blockcmd |-> blockcmd, noipf |-> noipf, crcChecked |-> crcChecked,
   recwl |-> {Data}, minrecl |-> 8]

MCConfs == {Conf(FALSE, FALSE, TRUE), Conf(TRUE, FALSE, TRUE),
            Conf(TRUE, TRUE, TRUE), Conf(TRUE, TRUE, FALSE)}

MCChunkSizes == {1, 3, 5, 10, 17, 22}

TimePasses == now > 0 => stream \in TimedStreams /\ ~conf.blockcmd

(* For the run on configure commands of protocol 02. *)
PlainStreams ==
  {StreamOf(Rec(p, 2, Configure, "time", TRUE), Rec(2, 2, Data, "none", TRUE)) :
     p \in {2, 5, 6}}
=============================================================================
