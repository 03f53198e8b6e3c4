-------------------------------- MODULE Dhcp --------------------------------
(***************************************************************************)
(* The DHCP client of the card's network stack (smoltcp, socket/dhcpv4.rs),*)
(* as an operator from one state of the socket to the next for each of its *)
(* entry points.  Time is what has passed: the instant the client waits    *)
(* for (retry_at or renew_at) and the end of its lease.                    *)
(***************************************************************************)
EXTENDS Integers

CONSTANTS
    Leases,          \* addresses DHCP servers give out; {} when there is none
    REQUEST_RETRIES  \* requests before discovery starts again

ASSUME DhcpAssumption == REQUEST_RETRIES \in Nat /\ "none" \notin Leases

\* ip is requested_ip or the lease's; asked is the kind of message that
\* transaction_id belongs to, the only one a server's reply can answer.
Clients ==
    [state : {"Discovering", "Requesting", "Renewing"}, ip : Leases \cup {"none"},
     retry : 0 .. REQUEST_RETRIES, due : BOOLEAN, expired : BOOLEAN,
     config_changed : BOOLEAN, asked : {"none", "DISCOVER", "REQUEST"}]

\* Dhcpv4Socket::new.
NewClient ==
    [state |-> "Discovering", ip |-> "none", retry |-> 0, due |-> TRUE, expired |-> FALSE,
     config_changed |-> TRUE, asked |-> "none"]

\* What servers can send that the client does not discard: process() compares
\* transaction ids, so a reply is one to the client's last message.
Replies(d) ==
    CASE d.asked = "DISCOVER" -> [type : {"OFFER"}, ip : Leases]
      [] d.asked = "REQUEST" -> [type : {"ACK"}, ip : Leases] \cup [type : {"NAK"}, ip : {"none"}]
      [] OTHER -> {}

\* Any other packet.
Other == [type |-> "other", ip |-> "none"]

\* Mutant: the loss of a lease is not reported.
ResetQuietly(d) ==
    [d EXCEPT !.state = "Discovering", !.ip = "none", !.retry = 0, !.due = TRUE,
              !.expired = FALSE]

\* Discovery starts again, at once; that a lease was held is news for poll().
reset(d) ==
    [d EXCEPT !.state = "Discovering", !.ip = "none", !.retry = 0, !.due = TRUE,
              !.expired = FALSE, !.config_changed = @ \/ d.state = "Renewing"]

\* The address is the one acknowledged, whatever was requested.
Acknowledged(d, ip) ==
    [d EXCEPT !.state = "Renewing", !.ip = ip, !.retry = 0, !.due = FALSE, !.expired = FALSE,
              !.config_changed = @ \/ d.state = "Requesting" \/ d.ip # ip]

process(d, m) ==
    CASE d.state = "Discovering" /\ m.type = "OFFER" ->
           [d EXCEPT !.state = "Requesting", !.ip = m.ip, !.retry = 0, !.due = TRUE]
      [] d.state # "Discovering" /\ m.type = "ACK" -> Acknowledged(d, m.ip)
      [] d.state # "Discovering" /\ m.type = "NAK" -> reset(d)
      [] OTHER -> d

Send(d, kind) == [d EXCEPT !.due = FALSE, !.asked = kind]

\* The interface polls again after a reset, so that its DISCOVER goes out in the
\* same call.
dispatch(d) ==
    CASE \/ d.state = "Discovering" /\ d.due
         \/ d.state = "Requesting" /\ d.due /\ d.retry >= REQUEST_RETRIES
         \/ d.state = "Renewing" /\ d.expired ->
           Send(IF d.state = "Discovering" THEN d ELSE reset(d), "DISCOVER")
      [] d.state = "Requesting" /\ d.due /\ d.retry < REQUEST_RETRIES ->
           [Send(d, "REQUEST") EXCEPT !.retry = @ + 1]
      [] d.state = "Renewing" /\ d.due /\ ~d.expired -> Send(d, "REQUEST")
      [] OTHER -> d

\* poll: what is reported, and the flag that is cleared with it.
Event(d) ==
    IF ~d.config_changed THEN "None"
    ELSE IF d.state = "Renewing" THEN "Configured" ELSE "Deconfigured"
polled(d) == [d EXCEPT !.config_changed = FALSE]

\* A client that may use an address.
Holds(d, ip) == d.state = "Renewing" /\ d.ip = ip /\ ~d.expired
=============================================================================
