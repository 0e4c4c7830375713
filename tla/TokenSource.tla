------------------------------ MODULE TokenSource -----------------------------
(***************************************************************************)
(* The rotating OAuth token source of pkg/oauth/rotatingtokensource.go:    *)
(* NewRotatingTokenSource (which fetches the first token), Start, the      *)
(* renewal goroutine driven by a time.Ticker, getToken, and the            *)
(* cancellation of the context passed to Start.                            *)
(*                                                                         *)
(* Time is a discrete clock that the environment advances.  A call to the  *)
(* wrapped source's Token() takes between 0 and MaxFetch ticks and returns *)
(* a token that expires Lifetime ticks after it returns.  The ticker fires *)
(* every Rotation ticks from Start; its channel holds one tick, and ticks  *)
(* that find it full are dropped, as time.Ticker does.                     *)
(***************************************************************************)
EXTENDS Integers

CONSTANTS
  Rotation,   \* DefaultRotation, in ticks
  Lifetime,   \* how long a token from the wrapped source stays valid
  MaxFetch,   \* the longest a call to the wrapped source's Token() takes
  MaxErrors,  \* bound on the errors the wrapped source returns
  MaxTime     \* bound on the clock

ASSUME Rotation > 0 /\ MaxFetch >= 0 /\ Lifetime > 0

VARIABLES
  now,          \* the clock
  expires,      \* expiry of ts.token
  lastRefresh,  \* ts.lastRefresh
  ctor,         \* the caller: "fetch" in New, "failed", "ready", "started"
  loop,         \* the renewal goroutine: "none", "wait", "fetch"
  stopped,      \* ticker.Stop() has been called
  nextTick,     \* when the ticker fires next
  pending,      \* a tick is buffered in ticker.C
  fetchStart,   \* when the running call to the wrapped source began
  cancelled,    \* the context passed to Start is done
  errors,       \* errors the wrapped source has returned
  rotated       \* the renewal goroutine has fetched a token

vars == <<now, expires, lastRefresh, ctor, loop, stopped, nextTick, pending,
          fetchStart, cancelled, errors, rotated>>

\* The zero time.Time: Add(DefaultRotation) is never after the clock.
ZeroTime == -Rotation

\* NewRotatingTokenSource calls getToken at once; the zero lastRefresh
\* never skips, so the fetch begins.
Init ==
  /\ now = 0
  /\ expires = 0
  /\ lastRefresh = ZeroTime
  /\ ctor = "fetch"
  /\ loop = "none"
  /\ stopped = FALSE
  /\ nextTick = 0
  /\ pending = FALSE
  /\ fetchStart = 0
  /\ cancelled = FALSE
  /\ errors = 0
  /\ rotated = FALSE

\* Token(): ts.token under the read lock, whatever its expiry; the model
\* keeps the expiry.
Token == expires

Fetching == ctor = "fetch" \/ loop = "fetch"

\* The renewal goroutine runs and its ticker has not been stopped.
Ticking == loop # "none" /\ ~stopped

\* The goroutine blocked in its select has a case ready: Go receives from
\* one at once, so no time passes first.
ReadyCase == loop = "wait" /\ (pending \/ (cancelled /\ ~stopped))

\* The clock advances, never past the end of a running fetch, nor past a
\* ready case of the goroutine's select.
\* The ticker fires on its period while the goroutine has not stopped it.
Advance ==
  /\ now < MaxTime
  /\ Fetching => now < fetchStart + MaxFetch
  /\ ~ReadyCase
  /\ now' = now + 1
  /\ IF Ticking /\ now' = nextTick
     THEN /\ pending' = TRUE
          /\ nextTick' = nextTick + Rotation
     ELSE UNCHANGED <<pending, nextTick>>
  /\ UNCHANGED <<expires, lastRefresh, ctor, loop, stopped, fetchStart, cancelled, errors, rotated>>

\* getToken after ts.src.Token() returns: on success the token and
\* lastRefresh = time.Now() are assigned under the lock.
Refresh ==
  /\ expires' = now + Lifetime
  /\ lastRefresh' = now

\* The wrapped source's Token() returns to New's getToken.  An error makes
\* New fail.
NewFetchDone ==
  /\ ctor = "fetch"
  /\ \/ /\ Refresh
        /\ ctor' = "ready"
        /\ UNCHANGED errors
     \/ /\ errors < MaxErrors
        /\ errors' = errors + 1
        /\ ctor' = "failed"
        /\ UNCHANGED <<expires, lastRefresh>>
  /\ UNCHANGED <<now, loop, stopped, nextTick, pending, fetchStart, cancelled, rotated>>

\* Start: go ts.tokenRenewalLoop(ctx), whose time.NewTicker starts now.
Start ==
  /\ ctor = "ready"
  /\ ctor' = "started"
  /\ loop' = "wait"
  /\ nextTick' = now + Rotation
  /\ UNCHANGED <<now, expires, lastRefresh, stopped, pending, fetchStart, cancelled, errors, rotated>>

\* The select receives from ticker.C and calls getToken, which skips the
\* rotation when lastRefresh.Add(DefaultRotation) is after time.Now().
LoopTick ==
  /\ loop = "wait"
  /\ pending
  /\ pending' = FALSE
  /\ IF lastRefresh + Rotation > now
     THEN UNCHANGED <<loop, fetchStart>>
     ELSE loop' = "fetch" /\ fetchStart' = now
  /\ UNCHANGED <<now, expires, lastRefresh, ctor, stopped, nextTick, cancelled, errors, rotated>>

\* The wrapped source's Token() returns to the loop's getToken.  On an
\* error, break leaves the select and the loop waits for the next tick.
LoopFetchDone ==
  /\ loop = "fetch"
  /\ loop' = "wait"
  /\ \/ /\ Refresh
        /\ rotated' = TRUE
        /\ UNCHANGED errors
     \/ /\ errors < MaxErrors
        /\ errors' = errors + 1
        /\ UNCHANGED <<expires, lastRefresh, rotated>>
  /\ UNCHANGED <<now, ctor, stopped, nextTick, pending, fetchStart, cancelled>>

\* The context passed to Start is cancelled.
Cancel ==
  /\ ~cancelled
  /\ cancelled' = TRUE
  /\ UNCHANGED <<now, expires, lastRefresh, ctor, loop, stopped, nextTick, pending, fetchStart, errors, rotated>>

\* The select receives from ctx.Done() (Go picks it or a buffered tick when
\* both are ready): ticker.Stop(), and break leaves only the select, so the
\* loop selects again on the closed Done channel without end.  A tick
\* buffered before Stop may still be received.
LoopDone ==
  /\ loop = "wait"
  /\ cancelled
  /\ ~stopped
  /\ stopped' = TRUE
  /\ UNCHANGED <<now, expires, lastRefresh, ctor, loop, nextTick, pending, fetchStart, cancelled, errors, rotated>>

Next ==
  \/ Advance \/ NewFetchDone \/ Start
  \/ LoopTick \/ LoopFetchDone \/ Cancel \/ LoopDone

Spec == Init /\ [][Next]_vars

-----------------------------------------------------------------------------
(* Properties *)

\* Once the renewal goroutine has rotated the token, and while it keeps
\* running, Token() returns a token that has not expired, provided the
\* rotation delay plus the time of a fetch is shorter than a token's
\* lifetime ("After expiration delay do the rotation": one fetch per
\* DefaultRotation).
TokenUnexpired ==
  (rotated /\ Ticking) => now < Token

=============================================================================
