---------------------------- MODULE Measurements ----------------------------
(***************************************************************************)
(* The ten measurements of the serving group operations.  A service        *)
(* answers four questions: which work items and channels a request         *)
(* becomes, what a capture of a modem may end in, which records a results  *)
(* request selects, and what it shows of a modem.  The code of one service *)
(* is a copy of another's, changed by hand; so are the definitions here,   *)
(* and the properties of module Capture hold for each of them.             *)
(***************************************************************************)
EXTENDS CaptureResults

CONSTANT Response   \* the responses of devices that are tried

ASSUME ResponseAssumption == Response \subseteq Responses

\* The services whose results have a structured view.
Viewed == {"rxmer", "const_display", "fec_summary", "channel_est_coeff", "modulation_profile",
           "pre_equalization", "histogram"}
Services == Viewed \cup {"spectrum", "scqam_spectrum", "ofdm_spectrum"}

-----------------------------------------------------------------------------
(* What the services share *)

\* The request summary: the scope and the channels asked for.
Summary(scope, channels) == [accepted |-> TRUE, sgs |-> scope.sgs, macs |-> scope.macs, channels |-> channels]

Refused == [accepted |-> FALSE, sgs |-> <<>>, macs |-> <<>>, channels |-> {}]

File(item, channel, n) == [mac |-> item.mac, sg |-> item.sg, channel |-> channel, n |-> n]

\* The channels a device may answer for.
Answered(channels) == IF channels = {} THEN Channel ELSE channels

\* One response, one file, attributed to the requested channel.
ChannelCaptures(item, channels) ==
    {CaptureOutcome(r, RequestedChannel(channels), <<File(item, c, 1)>>) :
        r \in Response, c \in Answered(channels)}

\* One response, one file, attributed to no channel.
PlainCaptures(item) ==
    {CaptureOutcome(r, NoChannel, <<File(item, NoChannel, 1)>>) : r \in Response}

\* One response per channel: the first bad one ends the loop with its status, the files of the
\* channels before it stay.  The order of the channels, and of their files, is any.
ChannelwiseCaptures(item, channels) ==
    LET order == SetToSeq(Answered(channels))
        Outcome(rs) ==
            LET bad == {i \in DOMAIN order : rs[i] \in {"none", "error", "malformed"}}
                filed == {i \in DOMAIN order : rs[i] = "file" /\ \A j \in bad : i < j}
            IN  [stage |-> "capture", channel |-> NoChannel,
                 txns |-> SetToSeq({File(item, order[i], 1) : i \in filed}),
                 status |-> IF bad # {} THEN ResponseStatus(rs[CHOOSE i \in bad : \A j \in bad : i <= j])
                            ELSE IF filed = {} THEN "TRANSACTION_NOT_FOUND" ELSE "SUCCESS"]
    IN  {Outcome(rs) : rs \in [DOMAIN order -> Response]}
             \cup {StageOutcome("capture", "FAILURE")}

-----------------------------------------------------------------------------
(* Downstream OFDM RxMER *)

\* The only service that checks the channels it is asked for.
RxMerRequest(store, scope, channels) ==
    IF ChannelsAccepted(store, scope.sgs, channels) THEN Summary(scope, channels) ELSE Refused
RxMerCaptures(item, channels) == ChannelCaptures(item, channels)
\* The channels of a selection are not looked at.
RxMerSelected(r, sel) == SelectedModem(r, sel)
RxMerModem(rs, decoded, lost) == ModemEntry(rs, decoded, lost)
RxMerView(records, decoded, lost) == {RxMerModem(rs, decoded, lost) : rs \in ByModem(records)}

-----------------------------------------------------------------------------
(* Downstream OFDM constellation display *)

ConstDisplayRequest(scope, channels) == Summary(scope, channels)
ConstDisplayCaptures(item, channels) == ChannelCaptures(item, channels)
ConstDisplaySelected(r, sel) == Selected(r, sel)
ConstDisplayModem(rs, decoded, lost) == ModemEntry(rs, decoded, lost)
ConstDisplayView(records, decoded, lost) == {ConstDisplayModem(rs, decoded, lost) : rs \in ByModem(records)}

-----------------------------------------------------------------------------
(* Downstream OFDM FEC summary *)

FecSummaryRequest(scope, channels) == Summary(scope, channels)
FecSummaryCaptures(item, channels) == ChannelCaptures(item, channels)
FecSummarySelected(r, sel) == Selected(r, sel)
FecSummaryModem(rs, decoded, lost) == ModemEntry(rs, decoded, lost)
FecSummaryView(records, decoded, lost) == {FecSummaryModem(rs, decoded, lost) : rs \in ByModem(records)}

-----------------------------------------------------------------------------
(* Downstream OFDM channel estimation coefficients *)

ChannelEstRequest(scope, channels) == Summary(scope, channels)
ChannelEstCaptures(item, channels) == ChannelCaptures(item, channels)
ChannelEstSelected(r, sel) == Selected(r, sel)
ChannelEstModem(rs, decoded, lost) == ModemEntry(rs, decoded, lost)
ChannelEstView(records, decoded, lost) == {ChannelEstModem(rs, decoded, lost) : rs \in ByModem(records)}

-----------------------------------------------------------------------------
(* Downstream OFDM modulation profile *)

ModProfileRequest(scope, channels) == Summary(scope, channels)
ModProfileCaptures(item, channels) == ChannelCaptures(item, channels)
ModProfileSelected(r, sel) == Selected(r, sel)
ModProfileModem(rs, decoded, lost) == ModemEntry(rs, decoded, lost)
ModProfileView(records, decoded, lost) == {ModProfileModem(rs, decoded, lost) : rs \in ByModem(records)}

-----------------------------------------------------------------------------
(* Upstream OFDMA pre-equalization *)

PreEqRequest(scope, channels) == Summary(scope, channels)
\* Every file of the response is kept: one for the coefficients, one for the last update.
PreEqCaptures(item, channels) ==
    {CaptureOutcome(r, RequestedChannel(channels), SubSeq(<<File(item, c, 1), File(item, c, 2)>>, 1, k)) :
        r \in Response, c \in Answered(channels), k \in 1..2}
PreEqSelected(r, sel) == Selected(r, sel)
\* A modem without an analysis is shown with an empty one, which names no channel either.
PreEqModem(rs, decoded, lost) == ModemEntry(rs, decoded, lost)
PreEqView(records, decoded, lost) == {PreEqModem(rs, decoded, lost) : rs \in ByModem(records)}

-----------------------------------------------------------------------------
(* Downstream histogram *)

\* No channels are asked for, none is recorded and none is selected or shown.
HistogramRequest(scope) == Summary(scope, {})
HistogramCaptures(item) == PlainCaptures(item)
HistogramSelected(r, sel) == SelectedModem(r, sel)
HistogramModem(rs, decoded, lost) == [ModemEntry(rs, decoded, lost) EXCEPT !.channel = NoChannel]
HistogramView(records, decoded, lost) == {HistogramModem(rs, decoded, lost) : rs \in ByModem(records)}

-----------------------------------------------------------------------------
(* Spectrum analyzers: their results are the records alone *)

SpectrumRequest(scope) == Summary(scope, {})
SpectrumCaptures(item) == PlainCaptures(item)

ScQamSpectrumRequest(scope, channels) == Summary(scope, channels)
ScQamSpectrumCaptures(item, channels) == ChannelwiseCaptures(item, channels)

OfdmSpectrumRequest(scope, channels) == Summary(scope, channels)
OfdmSpectrumCaptures(item, channels) == ChannelwiseCaptures(item, channels)

-----------------------------------------------------------------------------
(* The service that a router calls *)

RequestOf(svc, store, scope, channels) ==
    CASE svc = "rxmer" -> RxMerRequest(store, scope, channels)
      [] svc = "const_display" -> ConstDisplayRequest(scope, channels)
      [] svc = "fec_summary" -> FecSummaryRequest(scope, channels)
      [] svc = "channel_est_coeff" -> ChannelEstRequest(scope, channels)
      [] svc = "modulation_profile" -> ModProfileRequest(scope, channels)
      [] svc = "pre_equalization" -> PreEqRequest(scope, channels)
      [] svc = "histogram" -> HistogramRequest(scope)
      [] svc = "spectrum" -> SpectrumRequest(scope)
      [] svc = "scqam_spectrum" -> ScQamSpectrumRequest(scope, channels)
      [] svc = "ofdm_spectrum" -> OfdmSpectrumRequest(scope, channels)

CapturesOf(svc, item, channels) ==
    CASE svc = "rxmer" -> RxMerCaptures(item, channels)
      [] svc = "const_display" -> ConstDisplayCaptures(item, channels)
      [] svc = "fec_summary" -> FecSummaryCaptures(item, channels)
      [] svc = "channel_est_coeff" -> ChannelEstCaptures(item, channels)
      [] svc = "modulation_profile" -> ModProfileCaptures(item, channels)
      [] svc = "pre_equalization" -> PreEqCaptures(item, channels)
      [] svc = "histogram" -> HistogramCaptures(item)
      [] svc = "spectrum" -> SpectrumCaptures(item)
      [] svc = "scqam_spectrum" -> ScQamSpectrumCaptures(item, channels)
      [] svc = "ofdm_spectrum" -> OfdmSpectrumCaptures(item, channels)

IsSelected(svc, r, sel) ==
    CASE svc = "rxmer" -> RxMerSelected(r, sel)
      [] svc = "const_display" -> ConstDisplaySelected(r, sel)
      [] svc = "fec_summary" -> FecSummarySelected(r, sel)
      [] svc = "channel_est_coeff" -> ChannelEstSelected(r, sel)
      [] svc = "modulation_profile" -> ModProfileSelected(r, sel)
      [] svc = "pre_equalization" -> PreEqSelected(r, sel)
      [] svc = "histogram" -> HistogramSelected(r, sel)

ViewOf(svc, records, decoded, lost) ==
    CASE svc = "rxmer" -> RxMerView(records, decoded, lost)
      [] svc = "const_display" -> ConstDisplayView(records, decoded, lost)
      [] svc = "fec_summary" -> FecSummaryView(records, decoded, lost)
      [] svc = "channel_est_coeff" -> ChannelEstView(records, decoded, lost)
      [] svc = "modulation_profile" -> ModProfileView(records, decoded, lost)
      [] svc = "pre_equalization" -> PreEqView(records, decoded, lost)
      [] svc = "histogram" -> HistogramView(records, decoded, lost)

\* results: the records are selected first and the rest is decoded, when an analysis is asked for.
Results(svc, records, sel, analysis, lost) ==
    LET selected == {x \in records : IsSelected(svc, x.is, sel)}
    IN  ViewOf(svc, selected, IF analysis THEN DecodedBy(selected) ELSE {}, lost)

=============================================================================
