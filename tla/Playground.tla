----------------------------- MODULE Playground -----------------------------
(***************************************************************************)
(* Requests the server makes for others: the playground from the panel     *)
(* that sends a request (apps/web, Playground.tsx) through                 *)
(* PlaygroundService and the executor that follows redirects by hand       *)
(* (apps/api, modules/playground/), and the health probe (packages/jobs,   *)
(* probe/http-probe.ts), over validateTargetUrl() of packages/security.    *)
(*                                                                         *)
(* The Send button is disabled while a request is under way, the Enter key *)
(* is not, so requests overlap.  The network answers as it likes: a name   *)
(* resolves to other addresses each time, a host redirects, fails, or      *)
(* sends too much.                                                         *)
(***************************************************************************)
EXTENDS Integers, FiniteSets

CONSTANTS
  Sends,          \* handles of playground requests
  Targets,        \* URLs that may be typed, redirected to or probed: records
                  \* [protocol, credentials, portAllowed, kind, host]
  Addresses,      \* what names resolve to; the probe and the guard only ask
  PublicAddresses,\* ... whether an address is public (module AddressRanges)
  AllowHttp,      \* PLAYGROUND_ALLOW_HTTP
  MaxRedirects,   \* PLAYGROUND_MAX_REDIRECTS
  MaxBytes,       \* PLAYGROUND_MAX_RESPONSE_BYTES
  Volume          \* volumeThreshold of the breakers

ASSUME PlaygroundAssumption ==
  /\ MaxRedirects \in Nat /\ MaxBytes \in Nat /\ Volume \in Nat \ {0}
  /\ PublicAddresses \subseteq Addresses
  /\ "none" \notin Sends /\ "prober" \notin Sends

VARIABLES
  panel,      \* Playground.tsx: what it shows, whether it says "sending", and whose
              \* failure was notified since something was sent
  request,    \* the requests
  agents,     \* connection agents each request or probe holds open
  outcomes,   \* per host: answers and failures its breaker counted
  runs,       \* what was written, or tried, to the playground_runs table
  probed      \* the health probe's last result

playVars == <<panel, request, agents, outcomes, runs, probed>>

targetHosts == {t.host : t \in Targets}
noRequest == [at |-> "none", typed |-> "none", url |-> "none", hop |-> 0, bytes |-> 0,
              kept |-> 0, cut |-> FALSE, status |-> "none", code |-> "none"]
errorOf(typed, code) == [noRequest EXCEPT !.at = "record", !.typed = typed, !.url = typed, !.code = code]
notProbing == [at |-> "idle", status |-> "none", code |-> "none"]
Prober == "prober"

blankPanel == [sending |-> FALSE, response |-> "none", error |-> "none", notified |-> "none"]

playInit ==
  /\ panel = blankPanel
  /\ request = [s \in Sends |-> noRequest]
  /\ agents = [x \in Sends \cup {Prober} |-> 0]
  /\ outcomes = [h \in targetHosts |-> [answers |-> 0, failures |-> 0]]
  /\ runs = {}
  /\ probed = notProbing

-----------------------------------------------------------------------------
(* The guard                                                                 *)

(* validateTargetUrl(): the first check that fails names the reason.  The    *)
(* answer of the resolver is a set of addresses, empty when it has none, and *)
(* one that is not public spoils the others.                                 *)
checks(url, http, answer) ==
  << [fails |-> url.kind = "unparsable",                     code |-> "INVALID_URL"],
     [fails |-> url.protocol \notin {"http", "https"},       code |-> "PROTOCOL_NOT_ALLOWED"],
     [fails |-> url.protocol = "http" /\ ~http,              code |-> "PROTOCOL_NOT_ALLOWED"],
     [fails |-> url.credentials,                             code |-> "CREDENTIALS_IN_URL"],
     [fails |-> ~url.portAllowed,                            code |-> "PORT_NOT_ALLOWED"],
     [fails |-> url.kind = "internal",                       code |-> "HOST_NOT_ALLOWED"],
     [fails |-> url.kind = "literal" /\ url.host \notin PublicAddresses,
                                                             code |-> "BLOCKED_ADDRESS"],
     [fails |-> url.kind = "name" /\ answer = {},            code |-> "DNS_RESOLUTION_FAILED"],
     [fails |-> url.kind = "name" /\ ~(answer \subseteq PublicAddresses),
                                                             code |-> "BLOCKED_ADDRESS"] >>

validateTargetUrl(url, http, answer) ==
  LET all == checks(url, http, answer)
      failing == {i \in DOMAIN all : all[i].fails}
  IN IF failing = {} THEN "none"
     ELSE all[CHOOSE i \in failing : \A j \in failing : i <= j].code

-----------------------------------------------------------------------------
(* Errors                                                                    *)

guardCodes == {"INVALID_URL", "PROTOCOL_NOT_ALLOWED", "CREDENTIALS_IN_URL", "PORT_NOT_ALLOWED",
               "HOST_NOT_ALLOWED", "BLOCKED_ADDRESS", "DNS_RESOLUTION_FAILED"}

(* The error handler's normalizeError(): the code the browser is told.       *)
normalizeError(code) ==
  CASE code \in guardCodes -> "BLOCKED_TARGET"
    [] code \in {"UPSTREAM_TIMEOUT", "UPSTREAM_ERROR", "CIRCUIT_OPEN"} -> code
    [] OTHER -> "INTERNAL_ERROR"

(* The probe's classifyError(): its own, coarser codes.                      *)
classifyError(code) ==
  CASE code = "DNS_RESOLUTION_FAILED" -> "DNS_FAILURE"
    [] code \in guardCodes -> "BLOCKED_ADDRESS"
    [] code = "UPSTREAM_TIMEOUT" -> "TIMEOUT"
    [] OTHER -> "CONNECTION_REFUSED"

-----------------------------------------------------------------------------
(* The panel                                                                 *)

(* send(): by button or Enter; the answer of an earlier one is wiped.        *)
send(s, target) ==
  /\ request[s] = noRequest
  /\ request' = [request EXCEPT ![s] = [noRequest EXCEPT !.at = "validate", !.typed = target,
                                                         !.url = target]]
  /\ panel' = [blankPanel EXCEPT !.sending = TRUE]
  /\ UNCHANGED <<agents, outcomes, runs, probed>>

(* The answer, or the lack of one (NETWORK_ERROR), arrives at the page.  An  *)
(* answer that breaks off or is not an envelope throws something else than   *)
(* an ApiError, which is notified and leaves the panel as it was.            *)
receive(s) ==
  /\ request[s].at = "answered"
  /\ \/ /\ request[s].code = "none"
        /\ panel' = [panel EXCEPT !.response = s, !.sending = FALSE]
     \/ panel' = [panel EXCEPT !.error = s, !.notified = s, !.sending = FALSE]
     \/ panel' = [panel EXCEPT !.notified = s, !.sending = FALSE]
  /\ request' = [request EXCEPT ![s] = [noRequest EXCEPT !.at = "over"]]
  /\ UNCHANGED <<agents, outcomes, runs, probed>>

-----------------------------------------------------------------------------
(* The executor                                                              *)

(* The breakers count thrown errors only: any answer of the host, a 5xx too, *)
(* is a success to them.                                                     *)
circuitOpen(h) == LET o == outcomes[h] IN
  o.answers + o.failures >= Volume /\ 10 * o.failures >= 6 * (o.answers + o.failures)

(* An outcome is counted only while the volume is not reached (the window    *)
(* itself is the subject of CircuitBreaker).                                 *)
tally(h, failed) ==
  IF outcomes[h].answers + outcomes[h].failures >= Volume THEN outcomes
  ELSE IF failed THEN [outcomes EXCEPT ![h].failures = @ + 1]
  ELSE [outcomes EXCEPT ![h].answers = @ + 1]

(* The reset timeout of an open breaker has passed.                          *)
recovers(h) ==
  /\ circuitOpen(h)
  /\ outcomes' = [outcomes EXCEPT ![h] = [answers |-> 0, failures |-> 0]]
  /\ UNCHANGED <<panel, request, agents, runs, probed>>

(* Mutant: only an error thrown on is remembered to close the agent of the   *)
(* first hop.                                                                *)
throwsLeaky(s, code) ==
  /\ request' = [request EXCEPT ![s] = errorOf(request[s].typed, code)]
  /\ agents' = [agents EXCEPT ![s] = IF request[s].hop = 0 THEN 0 ELSE @]

(* The catch block: the agent is closed, and the error thrown on; all that   *)
(* is left of the request is what was typed.                                 *)
throws(s, code) ==
  /\ request' = [request EXCEPT ![s] = errorOf(request[s].typed, code)]
  /\ agents' = [agents EXCEPT ![s] = 0]

(* One hop: the current URL, the first or a redirect's, goes through the     *)
(* whole guard; then its breaker lets the request through or not.            *)
hop(s) ==
  /\ request[s].at = "validate"
  /\ \E answer \in SUBSET Addresses :
       LET code == validateTargetUrl(request[s].url, AllowHttp, answer) IN
       IF code # "none"
       THEN throws(s, code)
       ELSE IF circuitOpen(request[s].url.host)
       THEN throws(s, "CIRCUIT_OPEN")
       ELSE /\ request' = [request EXCEPT ![s].at = "requesting"]
            /\ agents' = [agents EXCEPT ![s] = @ + 1]
  /\ UNCHANGED <<panel, outcomes, runs, probed>>

(* The host does not answer, or not in time.                                 *)
requestFails(s) ==
  /\ request[s].at = "requesting"
  /\ \E code \in {"UPSTREAM_TIMEOUT", "UPSTREAM_ERROR"} : throws(s, code)
  /\ outcomes' = tally(request[s].url.host, TRUE)
  /\ UNCHANGED <<panel, runs, probed>>

(* It answers: the headers are in, the body is still to be read.             *)
answers(s) ==
  /\ request[s].at = "requesting"
  /\ \E status \in {"2xx", "3xx", "5xx"} :
       request' = [request EXCEPT ![s].at = "headers", ![s].status = status]
  /\ outcomes' = tally(request[s].url.host, FALSE)
  /\ UNCHANGED <<panel, agents, runs, probed>>

(* Mutant: the hops are not counted.                                         *)
followsForever(s) ==
  /\ request[s].at = "headers" /\ request[s].status = "3xx"
  /\ request[s].hop < MaxRedirects
  /\ \/ throws(s, "TypeError")
     \/ \E next \in Targets :
          /\ request' = [request EXCEPT ![s].at = "validate", ![s].url = next, ![s].status = "none"]
          /\ agents' = [agents EXCEPT ![s] = @ - 1]
  /\ UNCHANGED <<panel, outcomes, runs, probed>>

(* A redirect is followed while hops are left; a Location that is no URL     *)
(* throws.                                                                   *)
follows(s) ==
  /\ request[s].at = "headers" /\ request[s].status = "3xx"
  /\ request[s].hop < MaxRedirects
  /\ \/ throws(s, "TypeError")
     \/ \E next \in Targets :
          /\ request' = [request EXCEPT ![s].at = "validate", ![s].url = next,
                                        ![s].hop = @ + 1, ![s].status = "none"]
          /\ agents' = [agents EXCEPT ![s] = @ - 1]
  /\ UNCHANGED <<panel, outcomes, runs, probed>>

(* Anything else is the answer, a redirect too when no hop is left or it has *)
(* no Location.                                                              *)
readsBody(s) ==
  /\ request[s].at = "headers"
  /\ request' = [request EXCEPT ![s].at = "reading"]
  /\ UNCHANGED <<panel, agents, outcomes, runs, probed>>

(* Mutant: a chunk is kept whole when it begins below the cap.               *)
chunkWhole(s, size) == LET bytes == request[s].bytes + size IN
  /\ request[s].at = "reading" /\ ~request[s].cut
  /\ request' = [request EXCEPT ![s].bytes = bytes, ![s].cut = bytes > MaxBytes, ![s].kept = bytes]
  /\ UNCHANGED <<panel, agents, outcomes, runs, probed>>

(* readBounded(): the bytes are counted before they are kept, and the last   *)
(* chunk is cut.                                                             *)
chunk(s, size) == LET bytes == request[s].bytes + size IN
  /\ request[s].at = "reading" /\ ~request[s].cut
  /\ request' = [request EXCEPT ![s].bytes = bytes, ![s].cut = bytes > MaxBytes,
       ![s].kept = @ + IF bytes > MaxBytes THEN size - (bytes - MaxBytes) ELSE size]
  /\ UNCHANGED <<panel, agents, outcomes, runs, probed>>

(* The body ends, or was cut, or breaks off (the deadline, a bad encoding);  *)
(* its size is of no interest from here on.                                  *)
bodyEnds(s) ==
  /\ request[s].at = "reading"
  /\ \/ /\ request' = [request EXCEPT ![s].at = "record", ![s].bytes = 0, ![s].kept = 0, ![s].cut = FALSE]
        /\ agents' = [agents EXCEPT ![s] = @ - 1]
     \/ ~request[s].cut /\ throws(s, "AbortError")
  /\ UNCHANGED <<panel, outcomes, runs, probed>>

-----------------------------------------------------------------------------
(* The service                                                               *)

(* Mutant: the host that was typed stands for the one that answered.         *)
recordRunTyped(s) ==
  /\ request[s].at = "record"
  /\ LET r == request[s] IN
       runs' = runs \cup {[send |-> s, host |-> r.typed.host,
         status |-> IF r.code = "none" THEN r.status ELSE "none", code |-> r.code]}
  /\ request' = [request EXCEPT ![s].at = "answered"]
  /\ UNCHANGED <<panel, agents, outcomes, probed>>

(* recordRun(): the run is recorded under the host that answered, or under   *)
(* the host that was typed; a failure of the insert is swallowed.            *)
recordRun(s) ==
  /\ request[s].at = "record"
  /\ \/ UNCHANGED runs
     \/ LET r == request[s] IN
          runs' = runs \cup {[send |-> s,
            host |-> IF r.code = "none" THEN r.url.host ELSE r.typed.host,
            status |-> IF r.code = "none" THEN r.status ELSE "none", code |-> r.code]}
  /\ request' = [request EXCEPT ![s].at = "answered"]
  /\ UNCHANGED <<panel, agents, outcomes, probed>>

-----------------------------------------------------------------------------
(* The probe                                                                 *)

(* probe() up to the request: plain http is allowed.                         *)
probe(url) ==
  /\ probed.at = "idle"
  /\ \E answer \in SUBSET Addresses :
       LET code == validateTargetUrl(url, TRUE, answer) IN
       IF code = "none"
       THEN /\ probed' = [at |-> "requesting", status |-> "none", code |-> "none"]
            /\ agents' = [agents EXCEPT ![Prober] = @ + 1]
       ELSE /\ probed' = [at |-> "idle", status |-> "none", code |-> classifyError(code)]
            /\ UNCHANGED agents
  /\ UNCHANGED <<panel, request, outcomes, runs>>

(* It never throws, and whatever comes, the agent is closed at the end.      *)
probeEnds ==
  /\ probed.at = "requesting"
  /\ \/ \E status \in {"2xx", "3xx", "5xx"} :
          probed' = [at |-> "idle", status |-> status, code |-> "none"]
     \/ \E code \in {"UPSTREAM_TIMEOUT", "ECONNREFUSED"} :
          probed' = [at |-> "idle", status |-> "none", code |-> classifyError(code)]
  /\ agents' = [agents EXCEPT ![Prober] = @ - 1]
  /\ UNCHANGED <<panel, request, outcomes, runs>>

-----------------------------------------------------------------------------
progress(s) ==
  \/ hop(s) \/ requestFails(s) \/ answers(s) \/ follows(s) \/ readsBody(s)
  \/ bodyEnds(s) \/ recordRun(s) \/ receive(s)

playNext ==
  \/ \E s \in Sends : progress(s) \/ \E size \in 1..2 : chunk(s, size)
  \/ \E s \in Sends, t \in Targets : send(s, t)
  \/ \E h \in targetHosts : recovers(h)

probeNext == probeEnds \/ \E t \in Targets : probe(t)

-----------------------------------------------------------------------------
(* Properties                                                                *)

(* A request is recorded once at most, after it was carried out and with     *)
(* what the browser is told: an error's recorded code is the one that        *)
(* becomes the browser's, an answer's host is the one that answered, however *)
(* many redirects led there (service.ts, recordRun() and its catch).         *)
RunsAccounted == \A s \in Sends :
  LET mine == {r \in runs : r.send = s} IN
  IF request[s].at \in {"answered", "over"}
  THEN /\ Cardinality(mine) <= 1
       /\ \A r \in mine : /\ (r.code = "none") <=> (r.status # "none")
                          /\ request[s].at = "answered" => r.code = request[s].code
                          /\ request[s].at = "answered" /\ r.code = "none"
                               => r.host = request[s].url.host
  ELSE mine = {}

(* However a request ends, on whatever hop, and however often the probe      *)
(* runs, no connection agent stays open, and none has two (executor.ts and   *)
(* http-probe.ts: agent.close()).                                            *)
AgentsClosed ==
  /\ \A s \in Sends :
       agents[s] = IF request[s].at \in {"requesting", "headers", "reading"} THEN 1 ELSE 0
  /\ agents[Prober] = IF probed.at = "requesting" THEN 1 ELSE 0

(* The body kept is exactly what was received, up to the cap, however the    *)
(* bytes were cut into chunks (readBounded()).                               *)
BodyBounded == \A s \in Sends :
  /\ request[s].kept = IF request[s].bytes > MaxBytes THEN MaxBytes ELSE request[s].bytes
  /\ request[s].cut <=> request[s].bytes > MaxBytes

(* Who sends something hears of it: when nothing is under way any more, the  *)
(* panel shows an answer, or a failure was notified since the last send,     *)
(* however requests overlapped.  The panel itself may be blank by then       *)
(* (Playground.tsx, send()).                                                 *)
SenderHears ==
  (\E s \in Sends : request[s].at = "over")
    /\ (\A s \in Sends : request[s].at \in {"none", "over"})
  => panel.response # "none" \/ panel.notified # "none"

(* Every request sent is answered: redirects end, and each wait is bounded.  *)
SendsAnswered == \A s \in Sends : request[s].at = "validate" ~> request[s].at = "over"
=============================================================================
