------------------------------ MODULE Exporter ------------------------------
(***************************************************************************)
(* OtlpExporter::export (crates/export/src/otlp.rs) with one batch: the    *)
(* metrics go to the instruments of the SDK, then spans, logs and          *)
(* histogram points each make one request, grouped by service, and the     *)
(* first request that fails ends the export.  The drain does not try a     *)
(* batch again (see Pipeline).                                             *)
(***************************************************************************)
EXTENDS Integers, Sequences, SequencesExt

CONSTANTS
    Services, Hosts,    \* what the attributes service.name and host.name say
    Unknown,            \* the service of a record that names none
    Unnamed,            \* no such attribute
    MaxBatch            \* bound: signals of a batch

ASSUME ExporterAssumption ==
    Unnamed \notin Services \cup Hosts /\ MaxBatch \in Nat

VARIABLES
    batch,      \* what export was called with
    stage,      \* which request is next
    recorded,   \* the metrics the instruments got
    received,   \* the request of each kind, as the collector got it
    answer      \* what export returned

exporterVars == <<batch, stage, recorded, received, answer>>

Kinds == <<"span", "log", "histogram">>

Signals == {[kind |-> "metric", service |-> Unnamed, host |-> Unnamed]} \cup
           [kind : {Kinds[i] : i \in DOMAIN Kinds},
            service : Services \cup {Unnamed}, host : Hosts \cup {Unnamed}]

Named == Services \cup {Unknown}

Nothing == [services |-> {}, of |-> [s \in Named |-> <<>>], host |-> [s \in Named |-> Unnamed]]

InitExporter ==
    /\ batch \in BoundedSeq(Signals, MaxBatch)
    /\ stage = 0 /\ recorded = <<>> /\ answer = "none"
    /\ received = [i \in DOMAIN Kinds |-> Nothing]

-----------------------------------------------------------------------------
ServiceOf(r) == IF r.service = Unnamed THEN Unknown ELSE r.service

\* Mutant of Grouped: the host of the group is the host of its last record.
Grouped_LastHost(request, r) ==
    LET s == ServiceOf(r)
    IN  [services |-> request.services \cup {s},
         of   |-> [request.of EXCEPT ![s] = Append(@, r)],
         host |-> [request.host EXCEPT ![s] = IF r.host = Unnamed THEN @ ELSE r.host]]

\* One record more: it joins the group of its service, and gives the group its
\* host unless an earlier one did.
Grouped(request, r) ==
    LET s == ServiceOf(r)
    IN  [services |-> request.services \cup {s},
         of   |-> [request.of EXCEPT ![s] = Append(@, r)],
         host |-> [request.host EXCEPT ![s] = IF @ = Unnamed THEN r.host ELSE @]]

\* The request of the first i records, for every i.
Requests(records) ==
    LET upto[i \in 0..Len(records)] ==
          IF i = 0 THEN Nothing ELSE Grouped(upto[i - 1], records[i])
    IN  upto

\* What of the first i members of a sequence is in a set, for every i, in order.
Picks(seq, S) ==
    LET upto[i \in 0..Len(seq)] ==
          IF i = 0 THEN <<>>
          ELSE IF seq[i] \in S THEN Append(upto[i - 1], seq[i]) ELSE upto[i - 1]
    IN  upto

Picked(seq, S) == Picks(seq, S)[Len(seq)]

OfKind(kind)  == Picked(batch, {r \in Signals : r.kind = kind})
Request(kind) == Requests(OfKind(kind))[Len(OfKind(kind))]

-----------------------------------------------------------------------------
(* export *)

\* The pass over the batch: metrics are recorded, the rest is put aside.
Record ==
    /\ stage = 0
    /\ recorded' = recorded \o OfKind("metric")
    /\ stage' = 1
    /\ UNCHANGED <<batch, received, answer>>

\* A kind the batch has none of makes no request.
Skip ==
    /\ stage \in DOMAIN Kinds /\ answer = "none" /\ OfKind(Kinds[stage]) = <<>>
    /\ stage' = stage + 1
    /\ UNCHANGED <<batch, recorded, received, answer>>

Sends == stage \in DOMAIN Kinds /\ answer = "none" /\ OfKind(Kinds[stage]) # <<>>

SendOk ==
    /\ Sends
    /\ received' = [received EXCEPT ![stage] = Request(Kinds[stage])]
    /\ stage' = stage + 1
    /\ UNCHANGED <<batch, recorded, answer>>

\* Mutant of SendFails: the error is logged and the next request made.
SendFails_GoesOn ==
    /\ Sends
    /\ stage' = stage + 1
    /\ UNCHANGED <<batch, recorded, received, answer>>

\* The request is refused or lost, or its answer is: either way an error.
SendFails ==
    /\ Sends
    /\ \/ received' = [received EXCEPT ![stage] = Request(Kinds[stage])]
       \/ UNCHANGED received
    /\ answer' = "failed"
    /\ UNCHANGED <<batch, stage, recorded>>

ReturnOk ==
    /\ stage = Len(Kinds) + 1 /\ answer = "none"
    /\ answer' = "ok"
    /\ UNCHANGED <<batch, stage, recorded, received>>

Export == Record \/ Skip \/ SendOk \/ SendFails \/ ReturnOk

-----------------------------------------------------------------------------
(* Properties *)

\* The host that a request of these records states for a service.
FirstHost(records, s) ==
    LET named == Picked(records, {r \in Signals : ServiceOf(r) = s /\ r.host # Unnamed})
    IN  IF named = <<>> THEN Unnamed ELSE named[1].host

Arrived(i) == received[i].services # {}

\* A request says of its kind exactly what the batch does: every record once,
\* in order, under its own service, with the host that was named first
\* (otlp.rs:226-236, 289-296, 336-343).
RequestsKeepTheBatch ==
    \A i \in DOMAIN Kinds : Arrived(i) =>
        LET records == OfKind(Kinds[i])
        IN  /\ received[i].services = {ServiceOf(records[j]) : j \in DOMAIN records}
            /\ \A s \in received[i].services :
                  /\ received[i].of[s] = Picked(records, {r \in Signals : ServiceOf(r) = s})
                  /\ received[i].host[s] = FirstHost(records, s)

\* The answer tells what became of the batch: after Ok the collector has all of
\* it; after an error it has the kinds before the failed one, perhaps that one,
\* and none after; the metrics are recorded either way, once (otlp.rs:412-440).
AnswerTells ==
    LET Has(i) == OfKind(Kinds[i]) # <<>>
    IN  /\ answer # "none" => recorded = OfKind("metric")
        /\ answer = "ok" => \A i \in DOMAIN Kinds : Has(i) => Arrived(i)
        /\ answer = "failed" =>
              \E f \in DOMAIN Kinds :
                  /\ Has(f)
                  /\ \A i \in DOMAIN Kinds : /\ i < f /\ Has(i) => Arrived(i)
                                             /\ i > f => ~Arrived(i)

=============================================================================
