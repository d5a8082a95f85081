----------------------------- MODULE HttpExecutor -----------------------------
(***************************************************************************)
(* http/executor.py with http/tls_config.py and http/auth_config.py: the   *)
(* HTTP requests of rules, tests and sends.  Their callers are threads     *)
(* with an event loop each; getting a token blocks the loop, so that of    *)
(* one thread no two requests are in it.                                   *)
(*                                                                         *)
(* The threads share the profiles, and a profile of type token_fetch holds *)
(* the token it got last and the time it asked for it.  Nothing guards     *)
(* these two, which are looked at and assigned one after the other.        *)
(*                                                                         *)
(* A token is named by the moment it was issued.  A profile file is        *)
(*    named      the names in its `profiles`                               *)
(*    inline     the profiles that its overrides define themselves         *)
(*    overrides  host_overrides in file order: the hosts that the pattern  *)
(*               matches (fnmatch), its ports or AnyPort, and the profile  *)
(* and one that is missing or broken has none of them.                     *)
(***************************************************************************)
EXTENDS Integers, Sequences, FiniteSets

CONSTANTS Callers, Profiles,
          AuthFile, TlsFile,   \* auth.yaml and tls.yaml
          AuthType,            \* per profile, its type
          HasToken,            \* the bearer profiles with a token
          Ttl,                 \* per profile, token_cache_ttl_s
          HttpRequests,        \* the requests: host, port, authRef, tlsRef
          AnyPort, NoProfile, DefaultTls,
          FetchTime,           \* bound: how long it takes to get a token
          MaxClock             \* bound: the end of the clock

ASSUME HttpAssumption ==
    /\ Ttl \in [Profiles -> Nat]
    /\ AuthType \in [Profiles -> {"none", "basic", "bearer", "certificate", "token_fetch"}]
    /\ FetchTime \in Nat \ {0} /\ MaxClock \in Nat
    /\ NoProfile \notin Profiles
    /\ AuthFile.named \cup AuthFile.inline \subseteq Profiles
    /\ DOMAIN AuthFile.overrides = 1..Len(AuthFile.overrides)

VARIABLES clock,
          token, stamp,   \* per profile, _cached_token and _token_cached_at
          stage, job,     \* per caller: where it is, its two profiles
          asked, got,     \* ... the time it read, the token it has
          header          \* ... the Authorization of its request
httpVars == <<clock, token, stamp, stage, job, asked, got, header>>

NoToken == -1
NoJob   == [auth |-> NoProfile, tls |-> DefaultTls]

HttpTypeOK ==
    /\ clock \in 0..MaxClock
    /\ token \in [Profiles -> Nat \cup {NoToken}] /\ stamp \in [Profiles -> Nat]
    /\ stage \in [Callers -> {"idle", "lookup", "hit", "fetching", "storing",
                              "stamping", "ready"}]
    /\ \A c \in Callers : job[c].auth \in Profiles \cup {NoProfile}
    /\ asked \in [Callers -> Nat] /\ got \in [Callers -> Nat \cup {NoToken}]
    /\ header \in [Callers -> {"none", "basic", "bearer", "fetched"}]

-----------------------------------------------------------------------------
\* _host_pattern_matches, which the loaders have a copy of each.
Matches(override, host, port) ==
    /\ host \in override.hosts
    /\ override.ports = AnyPort \/ port \in override.ports

\* _load drops an override whose profile is not defined.
Loaded(file) ==
    {i \in DOMAIN file.overrides : file.overrides[i].profile \in file.named \cup file.inline}

\* get_profile_for: the first override that matches, in the order of the file.
ProfileFor(file, host, port, otherwise) ==
    LET hits == {i \in Loaded(file) : Matches(file.overrides[i], host, port)}
    IN  IF hits = {} THEN otherwise
        ELSE file.overrides[CHOOSE i \in hits : \A j \in hits : i <= j].profile

\* _resolve_auth and _resolve_tls: an explicit reference goes first, unless
\* no profile has its name.
Resolve(file, ref, host, port, otherwise) ==
    IF ref \in file.named THEN ref ELSE ProfileFor(file, host, port, otherwise)

Resolved(r) == [auth |-> Resolve(AuthFile, r.authRef, r.host, r.port, NoProfile),
                tls  |-> Resolve(TlsFile, r.tlsRef, r.host, r.port, DefaultTls)]

\* _apply_auth for what needs no request of its own.
StaticHeader(p) ==
    IF p = NoProfile THEN "none"
    ELSE IF AuthType[p] = "basic" THEN "basic"
    ELSE IF AuthType[p] = "bearer" /\ p \in HasToken THEN "bearer"
    ELSE "none"
Fetches(p) == p # NoProfile /\ AuthType[p] = "token_fetch"

-----------------------------------------------------------------------------
HttpInit ==
    /\ clock = 0
    /\ token = [p \in Profiles |-> NoToken] /\ stamp = [p \in Profiles |-> 0]
    /\ stage = [c \in Callers |-> "idle"]
    /\ job = [c \in Callers |-> NoJob]
    /\ asked = [c \in Callers |-> 0] /\ got = [c \in Callers |-> NoToken]
    /\ header = [c \in Callers |-> "none"]

Advance(c, to) == stage' = [stage EXCEPT ![c] = to]

\* execute: the profiles are resolved and the headers put together.
Execute(c, r) ==
    /\ stage[c] = "idle"
    /\ job' = [job EXCEPT ![c] = Resolved(r)]
    /\ ~Fetches(Resolved(r).auth)
    /\ header' = [header EXCEPT ![c] = StaticHeader(Resolved(r).auth)]
    /\ Advance(c, "ready")
    /\ UNCHANGED <<clock, token, stamp, asked, got>>

\* ... and _fetch_token reads the clock before anything else.
ExecuteWithToken(c, r) ==
    /\ stage[c] = "idle"
    /\ job' = [job EXCEPT ![c] = Resolved(r)]
    /\ Fetches(Resolved(r).auth)
    /\ asked' = [asked EXCEPT ![c] = clock]
    /\ Advance(c, "lookup")
    /\ UNCHANGED <<clock, token, stamp, got, header>>

\* Mutant of IsFresh: a token once got is used for ever.
EverFresh(p, time) == Ttl[p] > 0 /\ token[p] # NoToken

IsFresh(p, time) == Ttl[p] > 0 /\ token[p] # NoToken /\ time - stamp[p] < Ttl[p]
Lookup(c) ==
    /\ stage[c] = "lookup"
    /\ Advance(c, IF IsFresh(job[c].auth, asked[c]) THEN "hit" ELSE "fetching")
    /\ UNCHANGED <<clock, token, stamp, job, asked, got, header>>

\* return self._cached_token, whatever it is by now
TakeCached(c) ==
    /\ stage[c] = "hit"
    /\ got' = [got EXCEPT ![c] = token[job[c].auth]]
    /\ header' = [header EXCEPT ![c] = "fetched"]
    /\ Advance(c, "ready")
    /\ UNCHANGED <<clock, token, stamp, job, asked>>

\* The token server issues a token, and the answer is on its way.
Issue(c) ==
    /\ stage[c] = "fetching"
    /\ got' = [got EXCEPT ![c] = clock]
    /\ Advance(c, "storing")
    /\ UNCHANGED <<clock, token, stamp, job, asked, header>>

\* A timeout, an error or no token in the answer: the request goes without.
FetchFails(c) ==
    /\ stage[c] \in {"fetching", "storing"}
    /\ got' = [got EXCEPT ![c] = NoToken]
    /\ Advance(c, "ready")
    /\ UNCHANGED <<clock, token, stamp, job, asked, header>>

\* self._cached_token = token, and then self._token_cached_at = now
Store(c) ==
    /\ stage[c] = "storing"
    /\ token' = [token EXCEPT ![job[c].auth] = got[c]]
    /\ Advance(c, "stamping")
    /\ UNCHANGED <<clock, stamp, job, asked, got, header>>
Stamp(c) ==
    /\ stage[c] = "stamping"
    /\ stamp' = [stamp EXCEPT ![job[c].auth] = asked[c]]
    /\ header' = [header EXCEPT ![c] = "fetched"]
    /\ Advance(c, "ready")
    /\ UNCHANGED <<clock, token, job, asked, got>>

\* The request goes out; its answer or its error is the caller's result, and
\* the locals of the call are gone.
SendRequest(c) ==
    /\ stage[c] = "ready"
    /\ job' = [job EXCEPT ![c] = NoJob]
    /\ asked' = [asked EXCEPT ![c] = 0]
    /\ got' = [got EXCEPT ![c] = NoToken]
    /\ header' = [header EXCEPT ![c] = "none"]
    /\ Advance(c, "idle")
    /\ UNCHANGED <<clock, token, stamp>>

\* No caller takes longer than FetchTime from reading the clock to having a
\* token stored.
Tick ==
    /\ clock < MaxClock
    /\ \A c \in Callers : stage[c] \in {"lookup", "fetching", "storing"}
                             => clock < asked[c] + FetchTime
    /\ clock' = clock + 1
    /\ UNCHANGED <<token, stamp, stage, job, asked, got, header>>

HttpStep(c) == \/ \E r \in HttpRequests : Execute(c, r) \/ ExecuteWithToken(c, r)
               \/ Lookup(c) \/ TakeCached(c) \/ Issue(c) \/ FetchFails(c)
               \/ Store(c) \/ Stamp(c) \/ SendRequest(c)
HttpNext == (\E c \in Callers : HttpStep(c)) \/ Tick
HttpSpec == HttpInit /\ [][HttpNext]_httpVars

-----------------------------------------------------------------------------
\* A request never carries a token that was issued token_cache_ttl_s before
\* it asked for one, give or take the time it takes to get a token: that
\* much is lost when two threads get one at the same time, for the token of
\* the one may be kept with the time of the other.
TokensInTime ==
    \A c \in Callers :
        stage[c] = "ready" /\ header[c] = "fetched"
            => /\ got[c] # NoToken
               /\ asked[c] - got[c] < Ttl[job[c].auth] + FetchTime
=============================================================================
