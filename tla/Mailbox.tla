-------------------------------- MODULE Mailbox --------------------------------
\* Mail that files itself: the poll of every connected inbox, and the poll of the
\* firm's shared filing mailbox (src/lib/ops/m365/email.ts, filing.ts,
\* connections.ts; the mail service is external, behind the seam).
\*
\* The inbox poll is one transaction over all connections, its watermark the time it
\* began.  The filing poll lists, files each message in a transaction of its own,
\* and then sets its watermark to the time it ended.
EXTENDS Integers, FiniteSets

CONSTANTS Inboxes, Mails, Pollers,
          BoxOf(_),  \* the inbox a message arrives in, or the shared mailbox
          Shared, NoOne

VARIABLES mail,   \* each message: whether a watermark has passed it, how often it was filed
          conn,   \* each inbox's connection: off, live, or no longer refreshable
          token,  \* the matter's filing token: how often it was minted, and the one in force
          open,   \* the matter is not closed
          poll    \* what each poll has listed

vars == <<mail, conn, token, open, poll>>

Idle == [at |-> "idle", listed |-> {}, minted |-> 0]
ToShared(m) == BoxOf(m) = Shared

TypeOK ==
  /\ \A m \in Mails : mail[m].at \in {"unsent", "ahead", "past"} /\ mail[m].filed \in Nat
  /\ \A c \in Inboxes : conn[c] \in {"off", "live", "dead"}
  /\ \A a \in Pollers : poll[a].listed \subseteq Mails

Init ==
  /\ mail = [m \in Mails |-> [at |-> "unsent", filed |-> 0]]
  /\ conn = [c \in Inboxes |-> "off"] /\ token = 0 /\ open = TRUE
  /\ poll = [a \in Pollers |-> Idle]

IsIdle(a) == poll[a].at = "idle"
Free(a) == poll' = [poll EXCEPT ![a] = Idle]
Lists(a, what, ms) == IsIdle(a) /\ poll' = [poll EXCEPT ![a] = [Idle EXCEPT !.at = what, !.listed = ms]]

\* A message arrives, carrying the matter's number or its filing token.
Arrive(m) ==
  /\ mail[m].at = "unsent" /\ (ToShared(m) => token # 0)
  /\ mail' = [mail EXCEPT ![m].at = "ahead"] /\ UNCHANGED <<conn, token, open, poll>>

ConnectM365Account(c) ==
  /\ conn[c] # "live" /\ conn' = [conn EXCEPT ![c] = "live"]
  /\ UNCHANGED <<mail, token, open, poll>>
DisconnectM365Account(c) ==
  /\ conn[c] # "off" /\ conn' = [conn EXCEPT ![c] = "off"]
  /\ UNCHANGED <<mail, token, open, poll>>
\* The service stops refreshing a connection's tokens.
TokensLapse(c) ==
  /\ conn[c] = "live" /\ conn' = [conn EXCEPT ![c] = "dead"]
  /\ UNCHANGED <<mail, token, open, poll>>

Ahead(box) == {m \in Mails : BoxOf(m) = box /\ mail[m].at = "ahead"}

\* One connection that cannot be refreshed fails the poll of every other.
StartMailPoll(a) ==
  /\ \A c \in Inboxes : conn[c] # "dead"
  /\ Lists(a, "inbox", UNION {Ahead(c) : c \in {c \in Inboxes : conn[c] = "live"}})
  /\ UNCHANGED <<mail, conn, token, open>>

\* The schema takes one row a message and matter; a second is skipped.
Unfiled(ms) == {m \in ms : mail[m].filed = 0}
AsListed(ms) == ms
Claimed(ms) == Unfiled(ms)

\* What the watermark leaves behind: of what was listed, whatever the overlap of five
\* minutes does not hold back.
BeganAt(a, c) == poll[a].listed \intersect {m \in Mails : BoxOf(m) = c}
EndedAt(a, c) == Ahead(c)
Watermark(a, c) == BeganAt(a, c)

Filed(ms, past) ==
  mail' = [m \in Mails |-> [at |-> IF m \in past THEN "past" ELSE mail[m].at,
                            filed |-> IF m \in ms THEN mail[m].filed + 1 ELSE mail[m].filed]]

\* A disconnection meanwhile does not stop the poll.
RunMailPoll(a) ==
  /\ poll[a].at = "inbox"
  /\ \E past \in SUBSET UNION {Watermark(a, c) : c \in {c \in Inboxes : conn[c] # "off"}} :
       Filed(Claimed(poll[a].listed), past)
  /\ Free(a) /\ UNCHANGED <<conn, token, open>>

\* The shared mailbox is listed over the reader's connection.
StartFilingPoll(a) ==
  /\ \E c \in Inboxes : conn[c] = "live"
  /\ Lists(a, "filing", Ahead(Shared)) /\ UNCHANGED <<mail, conn, token, open>>

\* A message is filed with its receipt, left to a person when its matter is closed,
\* or fails: its bytes, its attachments, a receipt another poll wrote first.
Leaves(a, m) == poll' = [poll EXCEPT ![a].listed = @ \ {m}]
FileOneMessage(a, m) ==
  /\ poll[a].at = "filing" /\ m \in poll[a].listed /\ open /\ m \in Claimed({m})
  /\ Filed({m}, {}) /\ Leaves(a, m) /\ UNCHANGED <<conn, token, open>>
FilingFails(a, m) ==
  /\ poll[a].at = "filing" /\ m \in poll[a].listed /\ Leaves(a, m) /\ UNCHANGED <<mail, conn, token, open>>

RunFilingMailboxPoll(a) ==
  /\ poll[a].at = "filing" /\ poll[a].listed = {}
  /\ \E past \in SUBSET Ahead(Shared) : Filed({}, past)
  /\ Free(a) /\ UNCHANGED <<conn, token, open>>

\* The matter's filing token, minted on first ask: the matter is read without a lock.
StartFilingToken(a) ==
  /\ token = 0 /\ open /\ Lists(a, "token", {}) /\ UNCHANGED <<mail, conn, token, open>>
EnsureFilingToken(a) ==
  /\ poll[a].at = "token" /\ open /\ token' = token + 1 /\ Free(a) /\ UNCHANGED <<mail, conn, open>>

MatterMoves == open' = ~open /\ UNCHANGED <<mail, conn, token, poll>>
Abort(a) == ~IsIdle(a) /\ Free(a) /\ UNCHANGED <<mail, conn, token, open>>

Next ==
  \/ MatterMoves
  \/ \E m \in Mails : Arrive(m)
  \/ \E c \in Inboxes : ConnectM365Account(c) \/ DisconnectM365Account(c) \/ TokensLapse(c)
  \/ \E a \in Pollers :
       \/ StartMailPoll(a) \/ RunMailPoll(a) \/ StartFilingPoll(a) \/ RunFilingMailboxPoll(a)
       \/ StartFilingToken(a) \/ EnsureFilingToken(a) \/ Abort(a)
       \/ \E m \in Mails : FileOneMessage(a, m) \/ FilingFails(a, m)

Spec == Init /\ [][Next]_vars

\* A message is filed once, however many polls listed it and however often it is listed
\* again.
FiledOnce == \A m \in Mails : mail[m].filed <= 1

\* No message of an inbox is behind the watermark and unfiled, the ones that arrived
\* while the poll ran included.
NonePassedBy == \A m \in Mails : mail[m].at = "past" /\ ~ToShared(m) => mail[m].filed = 1
=============================================================================
