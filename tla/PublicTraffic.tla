---------------------------- MODULE PublicTraffic ----------------------------
(***************************************************************************)
(* A public HTTP request on the server, handlePublicTraffic of             *)
(* pkg/tunnel/server.go: the network rules, the rate limit (RateLimiter    *)
(* has its inside), the credentials, the proxy, and what is kept of it:    *)
(* the request log, the audit ring and the cache of the Basic Auth headers *)
(* that were found good.  Every request has its goroutine.                 *)
(***************************************************************************)
EXTENDS Naturals, Sequences, FiniteSets

CONSTANTS Goroutines,  \* that serve requests
          Headers,     \* Authorization headers with the right user and password
          NoHeader,    \* any other request
          CacheMax,    \* maxBasicAuthCacheEntries
          LogCap,      \* requestLogCapacity
          AuditCap,    \* maxAuditEvents
          MaxRequests  \* bound: requests in all

VARIABLES place,    \* where each goroutine is
          header,   \* the header of its request
          cache,    \* basicAuthAuthorizedHeaders
          count,    \* basicAuthCacheCount
          total,    \* requests that have come
          logged,   \* requestLog.entries: their Seq
          nextSeq,  \* requestLog.nextSeq
          audit,    \* auditEvents: by slot, the how many-eth event it is
          start,    \* auditStart
          recorded  \* how many there were

vars == <<place, header, cache, count, total, logged, nextSeq, audit, start, recorded>>
books == <<logged, nextSeq, audit, start, recorded>>

Places == {"idle", "auth", "count", "reset", "store", "add", "proxy", "audit"}

TypeOK ==
  /\ place \in [Goroutines -> Places]
  /\ header \in [Goroutines -> Headers \cup {NoHeader}]
  /\ cache \subseteq Headers /\ count \in 0..MaxRequests /\ total \in 0..MaxRequests
  /\ Len(logged) \in 0..LogCap /\ Len(audit) \in 0..AuditCap
  /\ nextSeq \in 0..MaxRequests /\ recorded \in 0..MaxRequests
  /\ start \in 0..(AuditCap - 1)

Init ==
  /\ place = [g \in Goroutines |-> "idle"]
  /\ header = [g \in Goroutines |-> NoHeader]
  /\ cache = {} /\ count = 0 /\ total = 0
  /\ logged = <<>> /\ nextSeq = 0
  /\ audit = <<>> /\ start = 0 /\ recorded = 0
-----------------------------------------------------------------------------
At(g, p) == place[g] = p
Go(g, p) == place' = [place EXCEPT ![g] = p]

\* A request, which the network rules or the rate limit may deny.
Arrive(g) ==
  /\ At(g, "idle") /\ total < MaxRequests
  /\ \E h \in Headers \cup {NoHeader} : header' = [header EXCEPT ![g] = h]
  /\ total' = total + 1
  /\ Go(g, "auth") \/ Go(g, "audit")
  /\ UNCHANGED <<cache, count, books>>

\* authorizedBasicAuth: a header that was found good before is not verified again, one
\* that is found good now is cached.
BasicAuth(g) == Go(g, IF header[g] \in cache THEN "proxy" ELSE "count")

\* authorizedPublicTraffic: without the right user and password, a token may do.
Authorize(g) ==
  /\ At(g, "auth")
  /\ IF header[g] \in Headers THEN BasicAuth(g) ELSE Go(g, "proxy") \/ Go(g, "audit")
  /\ UNCHANGED <<header, cache, count, total, books>>
-----------------------------------------------------------------------------
(* cacheBasicAuthHeader: a sync.Map and a counter, without a lock. *)

\* Fault: the counter never passes the maximum.
FullExactly(n) == n = CacheMax

Full(n) == n >= CacheMax

\* The counter, and Range: whether a key that is stored meanwhile goes is a matter of
\* when it was stored.
LoadCount(g) ==
  /\ At(g, "count")
  /\ IF Full(count) THEN cache' = {} /\ Go(g, "reset")
                    ELSE UNCHANGED cache /\ Go(g, "store")
  /\ UNCHANGED <<header, count, total, books>>

ResetCount(g) ==
  /\ At(g, "reset")
  /\ count' = 0 /\ Go(g, "store")
  /\ UNCHANGED <<header, cache, total, books>>

LoadOrStore(g) ==
  /\ At(g, "store")
  /\ cache' = cache \cup {header[g]}
  /\ Go(g, IF header[g] \in cache THEN "proxy" ELSE "add")
  /\ UNCHANGED <<header, count, total, books>>

AddCount(g) ==
  /\ At(g, "add")
  /\ count' = count + 1 /\ Go(g, "proxy")
  /\ UNCHANGED <<header, cache, total, books>>
-----------------------------------------------------------------------------
\* The oldest entry gives way.
Kept(s, cap) == IF Len(s) < cap THEN s ELSE Tail(s)

\* The reverse proxy has answered; requestLog.add under its mutex, but for an upgrade.
Proxy(g) ==
  /\ At(g, "proxy")
  /\ \/ nextSeq' = nextSeq + 1 /\ logged' = Append(Kept(logged, LogCap), nextSeq')
     \/ UNCHANGED <<nextSeq, logged>>
  /\ Go(g, "audit")
  /\ UNCHANGED <<header, cache, count, total, audit, start, recorded>>

NextStart(s) == (s + 1) % AuditCap

\* recordRequestAudit, under its mutex.
Audit(g) ==
  /\ At(g, "audit")
  /\ recorded' = recorded + 1
  /\ IF Len(audit) < AuditCap
       THEN audit' = Append(audit, recorded') /\ UNCHANGED start
       ELSE audit' = [audit EXCEPT ![start + 1] = recorded'] /\ start' = NextStart(start)
  /\ Go(g, "idle") /\ header' = [header EXCEPT ![g] = NoHeader]
  /\ UNCHANGED <<cache, count, total, logged, nextSeq>>

\* auditPayload: the events as they are listed.
Listed == [i \in DOMAIN audit |-> audit[((start + i - 1) % Len(audit)) + 1]]
-----------------------------------------------------------------------------
Goroutine(g) ==
  \/ Arrive(g) \/ Authorize(g)
  \/ LoadCount(g) \/ ResetCount(g) \/ LoadOrStore(g) \/ AddCount(g)
  \/ Proxy(g) \/ Audit(g)

Next == \E g \in Goroutines : Goroutine(g)

Spec == Init /\ [][Next]_vars
-----------------------------------------------------------------------------
(* Properties. *)

\* The last n numbers up to m, the oldest first.
Newest(n, m) == [i \in 1..n |-> m - n + i]

\* However the flushes of the cache meet, it stays bounded: every goroutine that is late
\* with its reset of the counter may lose the count of a full cache and of what the
\* others were storing, but only once (server.go:829-851).
CacheBounded ==
  LET n == Cardinality(Goroutines)
  IN  2 * Cardinality(cache) <= n * (2 * CacheMax + n - 1)

\* The log and the audit hold the newest entries, as many as they may, and list them
\* in their order, at the wrap of the ring too (request_log.go:58-80, server.go:462-492).
BooksAreRecent ==
  /\ logged = Newest(IF nextSeq < LogCap THEN nextSeq ELSE LogCap, nextSeq)
  /\ Listed = Newest(IF recorded < AuditCap THEN recorded ELSE AuditCap, recorded)

\* What the server keeps of its requests stays bounded and in order.
KeepsBounded == CacheBounded /\ BooksAreRecent
=============================================================================
