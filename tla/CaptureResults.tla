--------------------------- MODULE CaptureResults ---------------------------
(***************************************************************************)
(* The stage records that a capture leaves in results/sg-*.jsonl, how a    *)
(* device's response becomes one, and how the results endpoints turn       *)
(* records into a view of the modems.  The ten services hold a copy each   *)
(* of this code; module Measurements says what is different in which.      *)
(* A file name accompanies every transaction and is not told apart.        *)
(***************************************************************************)
EXTENDS CaptureScope

CONSTANT NameOrder   \* NameOrder[sg]: the place of sg-<id>.jsonl among the file names, 10 before 2

ASSUME OrderAssumption ==
    NameOrder \in [SG -> Nat] /\ \A s, t \in SG : NameOrder[s] = NameOrder[t] => s = t

Stages == {"eligibility", "precheck", "capture"}
Rank(stage) == CASE stage = "eligibility" -> 1 [] stage = "precheck" -> 2 [] stage = "capture" -> 3

Statuses == {"SUCCESS", "INVALID_PARAMETERS", "UNREACHABLE", "FAILURE", "DEVICE_ERROR",
             "TRANSACTION_NOT_FOUND", "TIMEOUT"}

\* The n-th file of the capture of an item, and the channel it is of, if it is of one.
Transaction == [mac : Modem, sg : SG, channel : Channel \cup {NoChannel}, n : 1..2]
NoTransaction == [mac |-> "none", sg |-> 0, channel |-> NoChannel, n |-> 0]

StageResult == [stage : Stages, status : Statuses, channel : Channel \cup {NoChannel},
                txns : Seq(Transaction)]

Record == [mac : Modem, sg : SG, stage : Stages, status : Statuses,
           channel : Channel \cup {NoChannel}, txns : Seq(Transaction)]

-----------------------------------------------------------------------------
(* Responses of a device *)

\* What the executor returns: nothing, an error, a payload that is no list, a list without a file
\* transaction, a list with one.
Responses == {"none", "error", "malformed", "empty", "file"}

\* parse_capture_response
ResponseStatus(response) ==
    CASE response \in {"none", "malformed"} -> "FAILURE"
      [] response = "error" -> "DEVICE_ERROR"
      [] response = "empty" -> "TRANSACTION_NOT_FOUND"
      [] response = "file" -> "SUCCESS"

StageOutcome(stage, status) ==
    [stage |-> stage, status |-> status, channel |-> NoChannel, txns |-> <<>>]

\* Mutation: a response without a transaction counts as captured.
CaptureOutcomeBug(response, channel, txns) ==
    [stage |-> "capture", channel |-> channel,
     status |-> IF response = "empty" THEN "SUCCESS" ELSE ResponseStatus(response),
     txns |-> IF response = "file" THEN txns ELSE <<>>]

CaptureOutcome(response, channel, txns) ==
    [stage |-> "capture", channel |-> channel, status |-> ResponseStatus(response),
     txns |-> IF response = "file" THEN txns ELSE <<>>]

\* A capture is attributed to a channel when exactly one was requested.
RequestedChannel(channels) ==
    IF Cardinality(channels) = 1 THEN CHOOSE c \in channels : TRUE ELSE NoChannel

-----------------------------------------------------------------------------
(* Selection of records *)

Selection == [sgs : SUBSET SG, channels : SUBSET Channel, macs : SUBSET Modem]

SelectedModem(r, sel) == (sel.sgs = {} \/ r.sg \in sel.sgs) /\ (sel.macs = {} \/ r.mac \in sel.macs)

\* Mutation: a record without a channel passes every channel filter.
SelectedBug(r, sel) ==
    SelectedModem(r, sel) /\ (sel.channels = {} \/ r.channel \in sel.channels
                                \/ (r.channel = NoChannel /\ r.stage # "capture"))

\* A record without a channel passes no channel filter.
Selected(r, sel) == SelectedModem(r, sel) /\ (sel.channels = {} \/ r.channel \in sel.channels)

-----------------------------------------------------------------------------
(* The records in the files *)

\* What is listed, each with its place: the order of a record's file and its line there, and for a
\* transaction its place in the record besides.
Before(p, q) == \E i \in DOMAIN p : p[i] < q[i] /\ \A j \in 1..(i - 1) : p[j] = q[j]

First(list) == (CHOOSE x \in list : \A y \in list \ {x} : Before(x.at, y.at)).is

Listed(list) == {x.is : x \in list}

\* load_result_records: the files in the order of their names.
AllRecords(files) ==
    UNION {{[at |-> <<NameOrder[sg], k>>, is |-> files[sg][k]] : k \in DOMAIN files[sg]} : sg \in SG}

-----------------------------------------------------------------------------
(* One modem's records *)

IsCapture(r) == r.stage = "capture"

\* _select_final_stage_record: the last one of a stable sort by stage.
FinalRecord(rs) ==
    (CHOOSE x \in rs : \A y \in rs \ {x} :
        Rank(y.is.stage) < Rank(x.is.stage) \/ (y.is.stage = x.is.stage /\ Before(y.at, x.at))).is

\* _resolve_modem_channel_id
ChannelOf(rs) ==
    LET named == {r.channel : r \in {x \in Listed(rs) : IsCapture(x)}} \ {NoChannel}
    IN  IF Cardinality(named) = 1 THEN CHOOSE c \in named : TRUE ELSE NoChannel

\* The transactions: of the capture records when there are any.  The code lists each once; the
\* first place of a transaction is the same.
TransactionsOf(rs) ==
    LET captures == {x \in rs : IsCapture(x.is)}
        source == IF captures # {} THEN captures ELSE rs
    IN  UNION {{[at |-> Append(x.at, k), is |-> x.is.txns[k]] : k \in DOMAIN x.is.txns} : x \in source}

\* _decode_records_basic_analysis: every transaction of a successful capture is decoded.
DecodedBy(records) ==
    UNION {ToSet(r.txns) : r \in {x \in Listed(records) : IsCapture(x) /\ x.status = "SUCCESS"}}

\* Mutation: whether the modem was captured is not asked.
AnalysedBug(ok, txns, decoded) ==
    LET known == {x \in txns : x.is \in decoded}
    IN  IF known = {} THEN NoTransaction ELSE First(known)

\* _resolve_modem_analysis: the first transaction that was decoded.
Analysed(ok, txns, decoded) ==
    LET known == {x \in txns : x.is \in decoded}
    IN  IF ~ok \/ known = {} THEN NoTransaction ELSE First(known)

\* _build_modem_file_link: the analysed transaction's file, the first one without an analysis.
FileLink(txns, analysed) ==
    CASE txns = {} -> NoTransaction
      [] txns # {} /\ analysed = NoTransaction -> First(txns)
      [] OTHER -> analysed

\* stage_status_codes: of each stage the status of its last record.  The messages of the stages are
\* collected beside them and not told apart.
StageCodes(rs) ==
    [stage \in Stages |->
        LET of == {x \in rs : x.is.stage = stage}
        IN  IF of = {} THEN "none" ELSE (CHOOSE x \in of : \A y \in of \ {x} : Before(y.at, x.at)).is.status]

\* A modem in the view; the files in lost cannot be read, and name no channel.
ModemEntry(rs, decoded, lost) ==
    LET ok == FinalRecord(rs).status = "SUCCESS"
        txns == TransactionsOf(rs)
        analysed == Analysed(ok, txns, decoded)
        named == ChannelOf(rs)
    IN  [mac |-> First(rs).mac, sg |-> First(rs).sg, ok |-> ok, codes |-> StageCodes(rs),
         txns |-> Listed(txns), analysed |-> analysed, file |-> FileLink(txns, analysed),
         channel |-> IF named = NoChannel /\ analysed \notin lost THEN analysed.channel ELSE named]

\* _build_structured_results: one entry per modem, under the group of its first record; the
\* groups and channels of the page are the entries' fields.
ByModem(records) == {{x \in records : x.is.mac = m} : m \in {r.mac : r \in Listed(records)}}

=============================================================================
