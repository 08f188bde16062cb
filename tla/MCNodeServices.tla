---------------------------- MODULE MCNodeServices ----------------------------
(* The small services of a node that share no state with one another: the   *)
(* identity files, the device's visibility, the web gateway's record, the   *)
(* LAN scan, the rate limit of probes, the feature streams of a session and *)
(* the tunnels of relayed ones.  A behaviour exercises one of them, named   *)
(* by service; their interleavings would multiply the states and add        *)
(* nothing.  Init, Next and the properties without a prefix are the         *)
(* tunnels'.                                                                *)
EXTENDS MCVisibility, RelayTunnel

CONSTANTS
    MaxStarts,
    Scans, Hosts, Concurrency, NotCancelled,
    Sources, Window, MaxAttempts, TableSize, Keep,
    Streams, Slots, Impatient

ASSUME ServiceConstants ==
    /\ Hosts \in Nat /\ Concurrency \in Nat /\ NotCancelled \notin Nat
    /\ IsFiniteSet(Streams) /\ Slots \in Nat
    /\ MaxAttempts \in Nat \ {0} /\ Window \in Nat \ {0} /\ Keep \in Nat /\ Keep >= Window

VARIABLES
    service,
    visible, durable, load, held, starts, identities,
    recorded, posted, gateway, stranded, dropped,
    cooling, cancelled, at, attempted, probing, ended, late,
    rates, admitted, refused,
    up, header, stream, caller, unready

Identity == INSTANCE IdentityStore WITH at <- load
Gateway == INSTANCE WebGateway
Scan == INSTANCE LanScan
Rate == INSTANCE ProbeRate
Features == INSTANCE FeatureStreams WITH late <- unready

identityVars == <<visible, durable, load, held, starts, identities>>
gatewayVars == <<recorded, posted, gateway, stranded, dropped>>
scanVars == <<cooling, cancelled, at, attempted, probing, ended, late>>
rateVars == <<rates, admitted, refused>>
featureVars == <<up, header, stream, caller, unready>>
allVars == <<service, identityVars, visibleVars, gatewayVars, scanVars, rateVars, featureVars, vars>>

MCInit ==
    /\ service \in {"identity", "visibility", "gateway", "scan", "rate", "features", "tunnel"}
    /\ Identity!Init /\ VisibleInit /\ Gateway!Init /\ Scan!Init /\ Rate!Init
    /\ Features!Init /\ Init
    /\ service # "visibility" => metadata = CHOOSE m \in Records : TRUE

MCNext ==
    /\ UNCHANGED service
    /\ \/ service = "identity" /\ Identity!Next
          /\ UNCHANGED <<visibleVars, gatewayVars, scanVars, rateVars, featureVars, vars>>
       \/ service = "visibility" /\ VisibleNext
          /\ UNCHANGED <<identityVars, gatewayVars, scanVars, rateVars, featureVars, vars>>
       \/ service = "gateway" /\ Gateway!Next
          /\ UNCHANGED <<identityVars, visibleVars, scanVars, rateVars, featureVars, vars>>
       \/ service = "scan" /\ Scan!Next
          /\ UNCHANGED <<identityVars, visibleVars, gatewayVars, rateVars, featureVars, vars>>
       \/ service = "rate" /\ Rate!Next
          /\ UNCHANGED <<identityVars, visibleVars, gatewayVars, scanVars, featureVars, vars>>
       \/ service = "features" /\ Features!Next
          /\ UNCHANGED <<identityVars, visibleVars, gatewayVars, scanVars, rateVars, vars>>
       \/ service = "tunnel" /\ Next
          /\ UNCHANGED <<identityVars, visibleVars, gatewayVars, scanVars, rateVars, featureVars>>

MCSpec ==
    /\ MCInit /\ [][MCNext]_allVars
    /\ \/ service \in {"identity", "visibility", "gateway", "rate"}
       \/ service = "scan" /\ Scan!Fairness
       \/ service = "features" /\ Features!Fairness
       \/ service = "tunnel" /\ Fairness

-----------------------------------------------------------------------------
(* Crashes, failed writes and power losses never give a device a second     *)
(* root key, and never leave a certificate on disk beside another pair's    *)
(* key, which no later start would accept (load_or_create).                 *)
IdentitySurvivesFaults == Identity!RootNeverRotates /\ Identity!StoredPairMatches

(* A gateway the daemon announces can be withdrawn (publish_web_gateway).   *)
GatewayWithdrawable == Gateway!GatewayWithdrawable

(* A cancelled scan spawns at most one more probe (scan_local_ipv4).        *)
CancelStopsTheScan == Scan!CancelStopsTheScan

(* Every scan ends (scan_local_ipv4).                                       *)
ScansEnd == Scan!ScansEnd

(* The limit of admit_discovery_probe is exact in both directions: fewer    *)
(* than twice MAX_ATTEMPTS probes of a source in any window, and a source   *)
(* is refused only for MAX_ATTEMPTS of its own within one.                  *)
RateLimitHolds == Rate!RateBounded /\ Rate!RefusedForCause

(* A dropped accept_feature_stream loses no stream.                         *)
StreamsRefusedForCause == Features!StreamsRefusedForCause

(* A complete stream is served past silent ones (accept_feature_stream).    *)
CompleteStreamsServed == Features!CompleteStreamsServed

(* A relay ends with its inner connection: the bridges of both ends stop,   *)
(* and a session that the application has let go returns its permit.        *)
RelayEndsCleanly == RelayEndsWithItsSession /\ CapacityReturns
=============================================================================
