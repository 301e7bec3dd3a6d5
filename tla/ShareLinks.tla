----------------------------- MODULE ShareLinks -----------------------------
(***************************************************************************)
(* Encrypted share links (modules/gists/handler.js, Gists in db.js): who   *)
(* may store how much for how long.  Three ceilings stand between an       *)
(* anonymous client and the disk: a request limiter and a byte budget per  *)
(* address, both in memory, and a cap on what is live in the table.        *)
(* Expired rows are deleted by a timer of the process (server.js).         *)
(*                                                                         *)
(* Abstractions.  Time is in ticks.  A bundle is its size; the row names   *)
(* the address that stored it, which the table does not: that is history.  *)
(* Malformed bodies leave no trace and are left out, as are reads, which   *)
(* change nothing, and the limiter's own sweep, which forgets only what    *)
(* the limiter no longer looks at.  The timer is not late, and its DELETE  *)
(* does not fail.                                                          *)
(***************************************************************************)
EXTENDS Naturals, Sequences, FiniteSets, SequencesExt

CONSTANTS
  Addresses,
  Sizes,        \* of a ciphertext
  MaxTotal,     \* live bytes in all
  IpBudget,     \* bytes of one address in one period
  Day,          \* IP_QUOTA_WINDOW_MS, and the timer's ONE_DAY_MS
  Ttl,          \* of a link: a day at least
  MaxTracked,   \* addresses with a budget, IP_QUOTA_MAX_TRACKED
  WriteMax, WriteWindow,   \* gistWriteLimiter
  LastDay       \* bound: when time stops

VARIABLES
  now,
  rows,      \* the table, in order of creation
  ipBytes,   \* the period of every tracked address
  buckets,   \* when the limiter let an address through
  reading,   \* the bundle of an address whose body is arriving; 0 is none
  due,       \* when the timer of this process fires
  swept,     \* history: it has fired
  forgot     \* history: when a running period of an address was forgotten

vars == <<now, rows, ipBytes, buckets, reading, due, swept, forgot>>

\* What the rows of s that are in some set have stored, row by row.
Sums(s, some) ==
  LET sum[n \in 0 .. Len(s)] ==
        IF n = 0 THEN 0 ELSE sum[n - 1] + (IF s[n] \in some THEN s[n].bytes ELSE 0)
  IN sum
Bytes(s, some) == Sums(s, some)[Len(s)]

\* The rows of s that are in some set, row by row.
Keeping(s, some) ==
  LET kept[n \in 0 .. Len(s)] ==
        IF n = 0 THEN <<>>
        ELSE IF s[n] \in some THEN Append(kept[n - 1], s[n]) ELSE kept[n - 1]
  IN kept
Kept(s, some) == Keeping(s, some)[Len(s)]

Expires(r) == r.at + Ttl
IsLive(r) == Expires(r) > now
Live == {r \in ToSet(rows) : IsLive(r)}
LiveBytes == Bytes(rows, Live)

\* makeAnalyzeLimiter: a sliding log.
Recent(ip) == SelectSeq(buckets[ip], LAMBDA t : t + WriteWindow > now)

Post(ip, n) ==
  /\ reading[ip] = 0 /\ Len(Recent(ip)) < WriteMax
  /\ reading' = [reading EXCEPT ![ip] = n]
  /\ buckets' = [buckets EXCEPT ![ip] = Append(Recent(ip), now)]
  /\ UNCHANGED <<now, rows, ipBytes, due, swept, forgot>>

Running(ip) == ip \in DOMAIN ipBytes /\ ipBytes[ip].start + Day > now

Only(keys) == [ip \in DOMAIN ipBytes \cap keys |-> ipBytes[ip]]
Nobody == [ip \in {} |-> 0]
Size(table) == Cardinality(DOMAIN table)

\* Full of running periods, the table starts over.
Roomy == IF Size(ipBytes) < MaxTracked THEN ipBytes
         ELSE LET running == Only({ip \in Addresses : Running(ip)})
              IN IF Size(running) < MaxTracked THEN running ELSE Nobody

Continued(ip) == [start |-> IF ip \in DOMAIN ipBytes THEN ipBytes[ip].start ELSE now, bytes |-> 0]
Opened(ip) == [start |-> now, bytes |-> 0]

\* chargeIp, as far as the period; the charge follows if it fits.
Periods(ip) ==
  IF Running(ip) THEN ipBytes
  ELSE [a \in {ip} \cup DOMAIN Roomy |-> IF a = ip THEN Opened(ip) ELSE Roomy[a]]

Fits(ip, n) == Periods(ip)[ip].bytes + n <= IpBudget

Forgets(table) ==
  forgot' = [a \in Addresses |-> IF Running(a) /\ a \notin DOMAIN table THEN now ELSE forgot[a]]

OverTotal(n) == LiveBytes > MaxTotal
Full(n) == LiveBytes + n > MaxTotal

\* The body is there: the cap first, then the budget, then the row, which may
\* fail after it was charged.
Create(ip) ==
  LET n == reading[ip]  table == Periods(ip) IN
  /\ n > 0
  /\ reading' = [reading EXCEPT ![ip] = 0]
  /\ IF Full(n) THEN UNCHANGED <<rows, ipBytes, forgot>>
     ELSE /\ Forgets(table)
          /\ IF ~Fits(ip, n) THEN ipBytes' = table /\ UNCHANGED rows
             ELSE /\ ipBytes' = [table EXCEPT ![ip].bytes = @ + n]
                  /\ \/ rows' = Append(rows, [by |-> ip, at |-> now, bytes |-> n])
                     \/ UNCHANGED rows
  /\ UNCHANGED <<now, buckets, due, swept>>

\* The daily timer.
Prune ==
  /\ now >= due
  /\ rows' = Kept(rows, Live)
  /\ due' = now + Day /\ swept' = TRUE
  /\ UNCHANGED <<now, ipBytes, buckets, reading, forgot>>

\* A new process: nothing in memory, and a day to the next sweep.
Restart ==
  /\ ipBytes' = Nobody /\ Forgets(Nobody)
  /\ buckets' = [ip \in Addresses |-> <<>>]
  /\ reading' = [ip \in Addresses |-> 0]
  /\ due' = now + Day /\ swept' = FALSE
  /\ UNCHANGED <<now, rows>>

Tick ==
  /\ now < due /\ now < LastDay
  /\ now' = now + 1
  /\ UNCHANGED <<rows, ipBytes, buckets, reading, due, swept, forgot>>

Init ==
  /\ now = Day /\ rows = <<>> /\ ipBytes = Nobody
  /\ buckets = [ip \in Addresses |-> <<>>]
  /\ reading = [ip \in Addresses |-> 0]
  /\ due = 2 * Day /\ swept = FALSE
  /\ forgot = [ip \in Addresses |-> 0]

Next ==
  \/ \E ip \in Addresses : (\E n \in Sizes : Post(ip, n)) \/ Create(ip)
  \/ Prune \/ Restart \/ Tick

Spec == Init /\ [][Next]_vars

-----------------------------------------------------------------------------
(* Properties.                                                             *)

StoredToday(ip) == Bytes(rows, {r \in ToSet(rows) : r.by = ip /\ r.at + Day > now})

\* An address stores no more than two budgets in any day, unless its period was
\* forgotten in that day: by a restart, or to make room for others.  (The
\* budget is of a fixed period, for all that modules/gists/handler.js:72 calls
\* it rolling: one budget in any day is not what the code keeps.)
FairShare ==
  \A ip \in Addresses : forgot[ip] + Day > now \/ StoredToday(ip) <= 2 * IpBudget

\* Once a process has swept, the table on disk, expired rows included, never
\* holds more than twice the cap: what a script can do to the disk is bounded.
DiskBounded == swept => Bytes(rows, ToSet(rows)) <= 2 * MaxTotal

\* Both ceilings hold, whoever posts what and however often the process dies.
CeilingsHold == FairShare /\ DiskBounded

\* docs/PRIVACY.md:181-182: after a link expires "a daily sweep deletes" it.
\* False of the code, and no run checks it: the timer starts over with every
\* process, so one that never lives for a day never sweeps.
SweptDaily == \A i \in 1..Len(rows) : now <= Expires(rows[i]) + Day
=============================================================================
