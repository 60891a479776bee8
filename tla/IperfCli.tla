------------------------------ MODULE IperfCli ------------------------------
(***************************************************************************)
(* The iperf command (examples/utils/cli_addons/iperf/iperf_cli.c).  The   *)
(* command line runs in the OpenThread task: it writes ctx, what the test  *)
(* is to be, and posts a call to lwIP's thread, which starts or aborts the *)
(* test as ctx says by then.  lwIP's thread also runs the sessions and     *)
(* reports their ends, each report read against the one ctx there is; a    *)
(* timer polls the UDP senders.                                            *)
(* A session is [id, server, tcp, type, left], left the parts of a         *)
(* client's test that are not done.                                        *)
(***************************************************************************)
EXTENDS Naturals, Sequences, FiniteSets

CONSTANTS IperfCmds    \* bound: commands typed

ASSUME IperfAssumption == IperfCmds \in Nat

VARIABLES
  iperfCtx,      \* ctx; session 0 is NULL
  iperfCalls,    \* callbacks posted to lwIP's thread
  sessions,      \* the sessions lwiperf has
  iperfTimer,    \* iperfTimer: does it run, and how often
  ticklessOff,   \* disable_tickless
  typed,         \* commands typed so far
  stray          \* history: has a report met the ctx of another test?

iperfVars == <<iperfCtx, iperfCalls, sessions, iperfTimer, ticklessOff, typed, stray>>

NoTest == [server |-> FALSE, tcp |-> FALSE, type |-> "client", session |-> 0]

\* otAppCliIperfCliInit: no test, and a timer that does not run yet.
IperfInit ==
  /\ iperfCtx = NoTest /\ iperfCalls = <<>> /\ sessions = {}
  /\ iperfTimer = [on |-> FALSE, period |-> 1]
  /\ ticklessOff = FALSE /\ typed = 0 /\ stray = FALSE

-----------------------------------------------------------------------------
(* The command line.  "host" is the address after -c; an argument that is  *)
(* unknown or malformed ends the command before anything is done.          *)

Flags == {"udp", "abort", "server", "client", "host", "bind", "dual", "tradeoff", "dserver"}

\* The parts of the arguments that make sense together.
Usable(info) ==
  /\ {"abort", "server", "client"} \cap info # {}
  /\ "client" \in info => {"host", "bind"} \subseteq info
  /\ ~({"server", "client"} \subseteq info)
  /\ {"dual", "tradeoff"} \cap info # {} => "client" \in info
  /\ ~({"dual", "tradeoff"} \subseteq info)
  /\ "dserver" \in info => {"server", "udp"} \subseteq info

\* Which of TESTAbort, TCPServer, TCPClient, TCPClientDual, TCPClientTradeOff,
\* UDPServer, UDPServerDual, UDPClient, UDPClientDual, UDPClientTradeOff.
Chosen(info) ==
  IF "abort" \in info THEN [call |-> "abort"]
  ELSE [call |-> "start", server |-> "server" \in info, tcp |-> "udp" \notin info,
        type |-> IF {"dual", "dserver"} \cap info # {} THEN "dual"
                 ELSE IF "tradeoff" \in info THEN "tradeoff" ELSE "client"]

Tests == {Chosen(info) : info \in {i \in SUBSET Flags : Usable(i)}}

\* ctx is written at once, whatever runs and whatever is still posted.
ProcessIperf(chosen) ==
  /\ typed < IperfCmds /\ typed' = typed + 1
  /\ iperfCtx' = IF chosen.call = "abort" THEN iperfCtx
                 ELSE [server |-> chosen.server, tcp |-> chosen.tcp, type |-> chosen.type,
                       session |-> iperfCtx.session]
  /\ iperfCalls' = Append(iperfCalls, chosen.call)
  /\ UNCHANGED <<sessions, iperfTimer, ticklessOff, stray>>

\* timer_poll_udp_client: posted if there is room, once is enough to model.
timer_poll_udp_client ==
  /\ iperfTimer.on /\ ~\E i \in DOMAIN iperfCalls : iperfCalls[i] = "poll"
  /\ iperfCalls' = Append(iperfCalls, "poll")
  /\ UNCHANGED <<iperfCtx, sessions, iperfTimer, ticklessOff, typed, stray>>

-----------------------------------------------------------------------------
(* lwIP's thread.                                                          *)

Runs(call) == iperfCalls # <<>> /\ Head(iperfCalls) = call /\ iperfCalls' = Tail(iperfCalls)

\* lwiperf_abort looks the session up and ends it, without a report.
Aborted(id) == {s \in sessions : s.id # id}

\* The addresses no session has, and the one the next session gets.
FreeIds == (1 .. IperfCmds + 1) \ {s.id : s \in Aborted(iperfCtx.session)}
NewId == CHOOSE n \in FreeIds : TRUE

\* What lwiperf starts for ctx.
Started ==
  [id |-> NewId, server |-> iperfCtx.server, tcp |-> iperfCtx.tcp, type |-> iperfCtx.type,
   left |-> IF iperfCtx.server THEN {"rx"}
            ELSE IF iperfCtx.type = "client" THEN {"tx"} ELSE {"tx", "rx"}]

iperf_test_abort ==
  /\ Runs("abort")
  /\ sessions' = Aborted(iperfCtx.session)
  /\ iperfCtx' = NoTest /\ iperfTimer' = [iperfTimer EXCEPT !.on = FALSE]
  /\ UNCHANGED <<ticklessOff, typed, stray>>

\* The running session is aborted; the timer is given its period, which starts
\* it; a session that cannot be started, or a TCP client without an interface
\* for its address, leaves none.
iperf_test_start ==
  /\ Runs("start")
  /\ ticklessOff' = TRUE
  /\ iperfTimer' = [on |-> TRUE, period |-> IF ~iperfCtx.tcp /\ iperfCtx.type = "dual" THEN 2 ELSE 1]
  /\ \/ /\ FreeIds # {}
        /\ sessions' = Aborted(iperfCtx.session) \cup {Started}
        /\ iperfCtx' = [iperfCtx EXCEPT !.session = NewId]
     \/ /\ sessions' = Aborted(iperfCtx.session)
        /\ iperfCtx' = [iperfCtx EXCEPT !.session = 0]
  /\ UNCHANGED <<typed, stray>>

\* Mutant: the first half of a test in turns ends it.
EveryReportEnds(part) == ~iperfCtx.server

\* iperf_free_ctx_iperf_session: which report ends the test.  A server is never
\* done, and of a test in turns the sending half is not the end.
ReportEnds(part) == ~iperfCtx.server /\ ~(iperfCtx.type = "tradeoff" /\ part = "tx")

\* The same question asked again for the tickless idle.
iperf_need_enable_tickless_idle(part) ==
  ~(iperfCtx.server \/ (iperfCtx.type = "tradeoff" /\ part = "tx"))

lwiperf_report(s, part) ==
  /\ iperfCtx' = IF ReportEnds(part) THEN [iperfCtx EXCEPT !.session = 0] ELSE iperfCtx
  /\ ticklessOff' = (ticklessOff /\ ~iperf_need_enable_tickless_idle(part))
  /\ iperfTimer' = [iperfTimer EXCEPT !.on =
       IF ~iperfCtx.server /\ iperfCtx.type # "dual" THEN FALSE
       ELSE @ \/ (iperfCtx.server /\ iperfCtx.type = "tradeoff" /\ ~s.tcp)]
  /\ stray' = (stray \/ s.id # iperfCtx.session \/ \E i \in DOMAIN iperfCalls : iperfCalls[i] # "poll")

\* A part of a test is done; a server waits for the next client, a client
\* goes on with what is left.  In a test in turns the sender comes first.
PartDone(s, part) ==
  /\ part \in s.left /\ (s.type = "tradeoff" /\ "tx" \in s.left => part = "tx")
  /\ sessions' = IF s.server THEN sessions
                 ELSE (sessions \ {s}) \cup {r \in {[s EXCEPT !.left = @ \ {part}]} : r.left # {}}
  /\ lwiperf_report(s, part)

\* A connection is lost: a client's test is over.
SessionFails(s) ==
  /\ sessions' = IF s.server THEN sessions ELSE sessions \ {s}
  /\ lwiperf_report(s, "none")

UdpSending(s, part) == ~s.tcp /\ ~s.server /\ part = "tx"

\* lwiperf_poll_udp_client sends the next datagram of the UDP clients, and may
\* find that one was the last.
poll_udp_client ==
  /\ Runs("poll")
  /\ \/ \E s \in sessions : UdpSending(s, "tx") /\ PartDone(s, "tx")
     \/ UNCHANGED <<iperfCtx, sessions, iperfTimer, ticklessOff, stray>>
  /\ UNCHANGED typed

SessionEvent(s) ==
  /\ \/ \E part \in {"tx", "rx"} : ~UdpSending(s, part) /\ PartDone(s, part)
     \/ SessionFails(s)
  /\ UNCHANGED <<iperfCalls, typed>>

IperfRests == typed = IperfCmds /\ UNCHANGED iperfVars

IperfNext ==
  \/ \E chosen \in Tests : ProcessIperf(chosen)
  \/ timer_poll_udp_client \/ poll_udp_client
  \/ iperf_test_start \/ iperf_test_abort
  \/ \E s \in sessions : SessionEvent(s)
  \/ IperfRests

IperfSpec == IperfInit /\ [][IperfNext]_iperfVars

-----------------------------------------------------------------------------
\* While every report finds the context of its own test, the sessions lwiperf
\* has are those `iperf -a' can still end, and the device is kept from tickless
\* idle as long as one runs: through the two halves of a test in turns, through
\* a test that replaces another, and for a server until it is aborted.  The
\* second half of a simultaneous test is the exception: the first report
\* forgets the session.
AbortReachesAll ==
  ~stray => \A s \in sessions :
              \/ s.id = iperfCtx.session /\ ticklessOff
              \/ ~s.server /\ s.type = "dual" /\ Cardinality(s.left) = 1
=============================================================================
