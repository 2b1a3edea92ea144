# A TLA+ model of NetworkRequestsHandler

The library accepts network requests (TCP and HTTP), queues them, and executes
them either as coroutines that one thread resumes in turn or, for requests with
`Priority::OUT_OF_QUEUE`, in a detached thread each. This directory holds TLA+
modules that model its concurrent core and the values it works on (URLs, messages),
TLC configurations that check them, and proofs that TLAPS checks. Paths below are those of the repository.

## 1. Inventory

| Part | Source | State | Operations |
| --- | --- | --- | --- |
| Dispatcher `NetworkRequestsHandler` | `inc/network_request_handler.hpp`, `src/network_request_handler.cpp` | pending set `m_requests` (ordered by pointers), lists `m_active_requests` and `m_error_requests`, one mutex each, flags `m_working` and `m_paused`, the thread of the asynchronous handler | `run`, `stop`, `pause`, `resume`, `addRequest`, `setActiveDownloadsLimit`, `notifyWhenExit`, accessors |
| Asynchronous handler `AsyncRequestHandler` | `private_inc/async_request_handler.hpp`, `src/async_request_handler.cpp` | list of coroutines and its mutex, limit (`uint8_t`), flag `m_working` | `run`, `addRequest`, `setMaxDownloadsCount`, `stop` |
| Synchronous handler | `src/sync_network_request_handler_impl.cpp` | none of its own; one detached thread per request | `handleRequest` |
| Exchange | `src/async_...impl.cpp`, `src/sync_...impl.cpp`, `src/network_request_handler_impl.cpp` | socket, phase, bytes written and read, time of the phase's start | connect, write, read headers, read a body by length or by chunks; pause, cancel, time-out and socket errors in each phase |
| Request `NetworkRequestBase` | `inc/network_request_base.hpp`, `src/network_request_base.cpp` | status, error, flags paused and canceled, output file, response data, callbacks | `setStatus`, `setError`, `addResponseData`, `cancel`, `pauseProcessing`, `continueProcessing`, registration of callbacks |
| `Url` | `inc/url.hpp`, `src/url.cpp`, `encodeUrl` of `src/network_utility.cpp`, `src/network_schemes.cpp` | the parts of the URL, the addresses of its host, an error, whether it is valid | a constructor that parses, seven setters, `composeUrl`, resolution of the host |
| HTTP messages | `src/http_request.cpp`, `src/http_header.cpp`, `src/http_param.cpp`, `src/http_response.cpp` | URL, headers, parameters, body, composed data, response | constructors, setters, `requestData`, `initResponse` |
| Other utilities | `src/network_utility.cpp` | none | uuid, address conversion, `checkFileName` |
| Error tables, schemes, status codes, logger | `src/network_error.cpp`, ... | none | none of interest |

**Interaction.** `run()` occupies the dispatcher's thread (the *Runner*). It
creates the asynchronous handler, starts that handler's thread (*Async*), and
then takes pending requests one by one: it registers a finished and a failed
callback with the request, lists it as active and, still under
`m_active_nr_lock`, hands it to the asynchronous handler or to a detached
thread. The request comes to its end in the thread that executes it, and the two
callbacks run there: they erase it from the active list and, on failure, copy it
to the error list. Users call `addRequest`, `pause`, `resume` and `stop`, and
`cancel` or `pauseProcessing` of a request, in threads of their own. `stop()`
stops and joins Async, makes what is still active pending again, and only then
lets the Runner's loop end. The libraries for sockets, logging and coroutines are
external: a coroutine is something whose resumption answers "suspended" or
"ended".

**What is hard here.** Iteration over lists that other threads change, partly
without a lock; callbacks that lock a mutex their caller may hold; flags read
outside the lock that protects what they announce; an 8-bit counter; start and
stop that race with requests; detached threads that outlive `stop()`; a file that
one thread writes and another closes; framing of a body that arrives in pieces.
`PROJECT.json` lists each of these under "hazards", at its line.

**What makes each part correct.**

* Asynchronous handler: a pass over the list resumes each coroutine at most once
  and skips none; a coroutine that has returned is never resumed; a request let in
  gets exactly one coroutine; the loop makes progress and stops when it is told to.
* Dispatcher: no submitted request is lost or in two places; a failed request is
  recorded once; no thread waits for itself; what is active has a handler; a submitted
  request settles; after `stop()` nothing runs, nothing is let in behind its back, and
  only what did not end is pending again; `stop()` and `run()` return.
* Request: each callback that is due is called once and in order, whatever threads
  and callbacks announce meanwhile; the output file holds what was read, and is gone
  when the request failed or was canceled.
* Exchange: a request is done only when all its bytes arrived; every exchange ends,
  and one that ends without an outcome was paused or canceled.
* Url and messages: what was composed can be read back with the same parts; the
  address that the handlers connect to belongs to the host that the message names;
  the length that is sent is that of the body.

## 2. Modules

| Module | Models |
| --- | --- |
| `CoroutinePool` | the abstract promise of the asynchronous handler to the dispatcher |
| `AsyncRequestHandler` | the asynchronous handler in detail, its caller, and the thread that stops it; implements `CoroutinePool` |
| `NetworkRequestsHandler` | the dispatcher, its callbacks, the threads that execute requests, and the users; extends `CoroutinePool`, so the two components are composed through the abstract specification that the detailed one is shown to implement |
| `NetworkRequest` | the request object: status, flags, response in memory or in a file, and the calls that change them, from several threads |
| `Transfer` | the abstract promise of an exchange to the client of a request |
| `RequestExchange` | the exchange that executes a request, synchronous or asynchronous, TCP or HTTP, with its users; extends `NetworkRequest` and implements `Transfer` |
| `RequestCallbacks` | the lists of callbacks of a request: their registration, and the loops that call them, in several threads and nested in one another |
| `Url` | parsing, setters, composition and resolution of URLs |
| `HttpMessage` | HTTP requests made of an URL, what is sent of them, and what becomes of the head of the answer; extends `Url` |
| `MCAsync`, `MCDispatcher`, `MCExchange`, `MCMessages`, `MCCallbacks` | instances for TLC, with symmetry where no temporal property is checked |
| `RecursiveSequences` | an operator on sequences written as a recursive function, so that it can be proved about |
| `SequenceLemmas` | proved facts about lists (erasure, append, tail, beginnings, flattening, selection), and the inductions those along a list need |
| `AsyncRequestHandler_proofs`, `NetworkRequestsHandler_proofs`, `CarefulClient_proofs`, `RequestExchange_proofs`, `ExchangeResults_proofs`, `RequestCallbacks_proofs`, `HttpMessage_proofs` | the theorems |

### AsyncRequestHandler

`pc` is where `run()` stands: `loop` at `while (m_working)`, `scan` at the head of
the inner loop, `running` inside `resume()`, `erase` before the lock of line 43.
`iter` is `active_requests_iterator` as a position of the list; `counter` is the
`uint8_t` of line 36, with its arithmetic modulo 256 (`Wrap8`). `caller[q]` is
where `addRequest(q)` stands between its test of `m_working` (line 57) and the
append (line 63); the two are separate actions because nothing protects the flag
in between. The list is changed atomically, as the mutex provides; `run()` reads
it without the mutex, and what a `std::list` does under that race beyond the order
of steps is not modelled. `Nap` and `Spin` are the two ways the thread turns
without changing anything. `passed` and `ended` are history of the current pass.

### NetworkRequestsHandler

`pcR` is where `_run()` stands, `pcS` where `_stop()` stands, `cb[e]` and `pos[e]`
the callback a thread executes and the iterator in it. A mutex held over several
steps is expressed by where the threads stand (`ActiveFree`, `ErrorFree`,
`NrFree`): `m_active_nr_lock` is held by the Runner from `Enter` until the request
is handed over, which includes a callback it may run itself (`rejecting`).
`std::list::erase` invalidates iterators at the erased element only:
`IteratorsAfterErase` turns those into `GONE`, and using one is recorded in `ub`;
the thread then gets no further, the mildest of the outcomes that undefined
behaviour permits. `m_requests` is ordered by the addresses of shared pointers, of
which the program says nothing, so `Take` takes any pending request. Successes,
failures and early returns of an exchange are nondeterministic here.

`RunAgain` is `run()` called again when it has returned after a `stop()`, any number of
times. It replaces both handlers (`Renew` of the pool), finds the requests that `stop()` put
back, and handles them again with their callbacks registered a second time. A detached
thread that is still in an exchange then uses a handler that was destroyed (`Busy`; recorded
in `ub`). Nothing that a careful client may rely on is lost by it: the properties and the
proofs hold over all restarts. Only the limit is not what it was: the new asynchronous
handler has the default of 50 again (`limit`, `SetActiveDownloadsLimit`), until the client
sets it anew.

`Quit` is the return of an exchange without an outcome: of a request that was halted, or of
one in `InvalidUrl`, whose error its constructor has set before the dispatcher registered
its callbacks (async impl 222-225, sync impl 244-247). Such a request is connected all the
same and may also fail by a socket's error or a time-out, so that it is left to chance
whether it ever gets an outcome. If not, it stays active without a coroutine;
`ActiveIsHandled` names these requests as its exception, `RequestsSettle` is about the
others.

A client submits a request once. `stop()` before `run()` uses a null pointer, `stop()`
twice joins a thread twice, and `run()` while it runs replaces a thread that was not
joined; each ends the program at once, and the model's clients do not do so. The constant
`Careful` selects a client that also keeps to the discipline stated above `Serving`.

### NetworkRequest and RequestExchange

`step[t]` is where thread `t` stands in a call of `setStatus(want[t])`, one step per
statement that another thread can get between: the callbacks for a changed status
(which see the former status, as line 177 comes before line 245), the switch, the test,
close and reset of the stream, the removal of the file, the assignment. `pcW` is the
same for `addResponseData()`, which only the handler calls. `linked` tells whether the
open stream still writes the file that has the path; `NoFile` stands for its absence.
Using the stream after another thread has reset it is recorded in `ub` and stops the
thread. The buffer of the stream and a full disk are left out.

`pcH` is where the exchange stands. The four functions of the source (TCP and HTTP,
coroutine and thread) share their phases: connect, write, then for TCP the body and for
HTTP the headers and a body by length or by chunks. A turn of a loop is one action: the
test of the flags, one socket operation of at most `MaxFrame` bytes (255 in a coroutine,
65535 in a thread), and the check. `Quit` is the turn that finds the request halted and
`SocketFails` the check that finds an error or the time-out, possible in each phase. A
turn that moves nothing is a stuttering step. `setting` is what the client chose and
what the peer answers: where the output goes, and a reply with its framing, its body and
the tokens on the wire (`stream`). Chunk sizes are written in base 2 where the protocol
has 16. The library's `readUntil()` is modelled from its uses: when the delimiter has
not arrived it leaves an error and hands out what has (lines 206-211). `punctual` is a
peer whose chunk-size lines and chunk ends arrive whole.
`PeerAssumption` says what the peer of a setting is: its body is what this code is to read of
its stream. In a reply by length or of TCP the body is what the stream carries; one that
sends chunks is in `Chunkings`, a set closed under what is left behind each chunk, so that
the assumption says of one chunk (`IsChunk`) what holds of all; nothing is to be read of a
reply that is refused, has no framing or a bad length. Sizes with a sign, chunk
extensions and bodies whose bytes look like digits are left out.

`StopCancels` is what the dispatcher's `stop()` does to a request that is active: its
coroutine is resumed no more, wherever it was suspended, and `cancel()` is called in the
thread of `stop()`. `HandledAgain` is the second exchange after a restart, which finds the
request canceled. Bound: a request that was canceled before is not stopped. A request with
an invalid Url has its error from its constructor (`setting.valid`): nobody asks for it
before the headers have arrived, so that it is connected and written all the same, and
its exchange returns there without an outcome (`HeadersFailed`). A TCP request does not
look at its Url, hence the last conjunct of `ExchangeAssumption`.

`Transfer` leaves of all this what a client relies on: bytes come in the order of the body
(`Receive`), and one outcome, done or failed, comes after the last of them and stays
(`Complete`, `Fail`). `Promise` maps `received` to what was handed over and the counts of
invoked callbacks to the set of outcomes (`Told`).

In the dispatcher's model the exchange is `Succeed`, `Fail` and `Quit`; `OneOutcome`,
`OutcomeUnlessHalted` and `ExchangeEnds` are what that model assumes of it.

### RequestCallbacks

`NetworkRequest` counts outcomes; this module looks at how they are told. An announcement
(`setStatus()` or `addResponseData()`) is a plan of lists to walk through; `frames[t]` is
the stack of announcements of thread `t`, each with the list it is in, the place of its
iterator, the end it compares with and whether a callback is running. A callback may make an
announcement of its own (a deeper frame) and register others. A vector that grows past its
capacity moves: a loop that has an iterator in it is recorded in `ub` (`Reallocates` is the
growth by doubling, external). A member may be registered with a `weak_ptr`, which the
functor locks, or with a plain pointer; `GiveUp` ends an object's owner's hold of it.
`ListFor` keeps what the code does with members registered for changes of status: some go
into the lists of the finished callbacks (`Strays`, line 967 of the header). A callback is
due at the list it is in, and those are due at the end of the request: `EachDueOnce` is
about what the lists hold. That they should be called when the status changes is what the
header says (line 449), and the code does not do it.

A careful client registers while no loop is in the list, and does not give up an object of
which a plain pointer is registered. Overloads that do not compile when they are used
(`Compiles`) are not offered.

### Url and HttpMessage

A text is a sequence of tokens: each character that some line of the code looks for, and
words for what stands between. `Parse` follows the constructor through scheme, authority and
tail, with its peculiarities: two slashes are looked for anywhere behind the scheme but
taken from its front, and a `#` without a query belongs to the path. The resolver is
external: `Directory` and the answers "found", "unknown", "try again" and `Silence`, a
failure with an `h_errno` that the switch in `_resolveHost()` has no case for: neither an
error nor an address is stored (`silent` is the history of that). `Words` is the set of all
tokens; `WordsAssumption` and `HttpAssumption` name those that the code itself writes (a
percent sign and digits, default ports, the literals of `requestData()`), so that every text
the code composes is one of `Text`. `NamesAssumption` says what is outside keeps to: no
number holds a delimiter of an authority, and `stoi()` reads the numbers of ports. Setters
change one object in any order, with the errors that remain and the addresses that pile up.
`EncodeUser` is the loop of `setAuthority()` that uses places of a name in the name that
grows while it is encoded. Ports are numbers modulo 2^16 beside their text.

A request owns a copy of the Url. `Compose` is `requestData()`, with its order of headers,
parameters and query; `InitResponse` reads a head as a server may write it (`Spell`,
external), including heads that make `at()` throw (`HeadThrows`). What `HttpAssumption` says
of `Heads` is that they are made of lines. A line that holds `HTTP/` of any version is
skipped wherever it stands (`IsHeader`, `Versions`), as in the code. The value of a
parameter of a form depends on the Content-Type that the client has added: it is encoded,
left out (`Multipart`, not developed yet) or written as it is (`FormValue`). `Pieces`, which
splits a text, is written as a recursive function, so that it can be proved about.

## 3. Runs

| Run | Question | Result |
| --- | --- | --- |
| `async` | What do the passes guarantee, whatever the counter does, with appends and erasures at any moment, limits changed at any moment and a `stop()` that may come before `run()` has begun? When the limit is 255 from some time on, does every coroutine return and does `stop()` come back? | All hold; the handler implements `CoroutinePool`. The two liveness properties are conditional: they say nothing of behaviours in which another limit remains. |
| `async_hang` | Does `stop()` come back with the default limit? | No: line 45 decrements the counter for a coroutine it never counted. If the first coroutine of a pass ends and another is left, the counter is 255, above the limit, and `continue` turns on the spot for ever. |
| `dispatch_any` | What holds for clients that do whatever the interface lets them, over any number of restarts? | No request is lost or listed twice, failures are recorded once, no request gets a coroutine behind a `stop()` that has the lock, `begin()` is safe. Threads may block for ever (see below), so deadlock is not checked. |
| `dispatch_careful` | Does the handler keep its promises to a careful client without `OUT_OF_QUEUE` requests, who may stop and start it again? | Yes, with deadlock checked: what is active has a handler unless it was halted or has an invalid Url, nothing runs after a stop, what has ended is not handled again, no iterator dangles, the Runner waits for no lock of its own, and `run()` returns after a stop. While the limit is 255, requests with a valid Url settle (those that a stop canceled by that) and `stop()` comes back: as each `run()` begins with the limit 50, these two say nothing of behaviours in which the limit is another one. |
| `dispatch_stop` | Does `stop()` come back if a request is submitted around the start or the stop? | No: the refused request's failed callback locks the mutex that the Runner holds (lines 97 and 90). |
| `dispatch_dangling` | Are the callbacks safe when requests end in two threads, even with a careful client? | No: the failed callback iterates without the lock (line 85). |
| `exchange_all` | What does a request have when its exchange is over, and does every exchange end, whatever is answered, fails, is called by users, stopped or handled again? | Memory holds a prefix of the body, a file what was read, nothing remains after a failure or a cancellation, there is one outcome, none only after a halt, and every exchange ends; it implements `Transfer`. Conditions: a careful client for the file, a punctual peer for chunks, no `Content-Length: 0` for the single outcome, a valid Url for there being one. |
| `exchange_chunks` | Is a DONE request complete when a chunk-size line arrives in pieces? | No: its first piece is dropped (line 302). |
| `exchange_resume` | Does a resumed request go on? | No: the pause made the coroutine return, and nothing executes the request again. |
| `exchange_file` | Does the file hold what was read if a user pauses and resumes? | No: the pause closes the stream between its test and the write. |
| `messages` | Can an Url and a request be read back from what is composed of them, are the addresses those of the host, and does the response hold what the server wrote? | Yes, under the conditions that the properties state: they are where the code does otherwise. |
| `callbacks` | Is each due callback called once and in order, while two threads announce, callbacks announce and register, and owners give objects up? | Yes for a careful client; due is what is in the lists. |

The conditions of `messages` tell what a client has to know: after the authority was set to
two hosts the first one's addresses come first (line 396 of `url.cpp`); a resolution that
fails for a reason without a case leaves a valid Url without an address (line 364); a
resolution that once had to be tried again leaves the Url invalid (line 176); ports above
65535 differ from their text (line 240); a password is not encoded and a user name with two
special characters is encoded in the wrong places (line 189); a GET request's values are not
encoded, and a query without parameters is sent as part of the path (`http_request.cpp:84`);
the values of a multipart form are not sent; a field that holds `HTTP/` is lost
(`http_header.cpp:20`); a field without value and space ends the program
(`http_header.cpp:36`).

**Where the code is not what its docs say.** Besides the six violations, these cases are
exceptions of the properties that hold, each named in the comment of its property:

* `addStatusChangedCallback()` for members: the docs say that they "will be invoked when
  network request status had changed" (`network_request_base.hpp:449`), and line 967 puts
  them into the lists of the finished callbacks (`EachDueOnce`).
* `composeUrl()`: "IP address representation is considered as preferred" (`url.hpp:166`), and
  line 333 of `url.cpp` writes the host where there is one (`ComposedIsReadBack`).
* `hostIP()`: "Returns host in form of ip address" (`url.hpp:117`), and there may be none, or
  one of a former host (`AddressIsOfHost`).
* Failed callbacks "will be invoked when network request processing had failed"
  (`network_request_base.hpp:687`), and not for a request with an invalid Url, which stays
  active without a handler (`RequestsSettle`, `ActiveIsHandled`, `OutcomeUnlessHalted`).
* `stop()`: "Stops the processing of all network requests" (`network_request_handler.hpp:71`),
  and it is lost when it comes before `run()` has set `m_working`, in the asynchronous handler
  (line 30, its join never returns; `StopReturnsAtTopLimit`) and in the dispatcher (line 63,
  its loop goes on; `RunReturns`).
* "Threadsafe Yes" (`network_request_handler.hpp:33`), and an `OUT_OF_QUEUE` request that is
  neither TCP nor HTTP is refused in the Runner's thread (line 100), whose failed callback
  takes the mutex that the Runner holds (`RunnerNeverLocksTwice`).

Smaller observations need no run: the doc of `setActiveDownloadsLimit` says the limit is 5
by default and the constructor sets 50; the limit bounds nothing, as exceeding it stops the
loop instead (`SpinHasACause`); callbacks for a changed status are given the former one; a
reply with `Content-Length: 0` invokes the finished callbacks twice (lines 280 and 357); a
request canceled while it connects ends with the status WRITING, and one that is handled
again after a stop with PROCESSED; a TCP request is never READING; a request with an invalid
Url is connected to (address 0) before its error is looked at; a request that a `stop()` has
canceled stays active once it is handled again.

**Bounds.** `async`: three requests suffice for an erasure before, at and after a kept
coroutine while a third one is appended; limit 1 is exceeded by two kept coroutines, 0 by
one, 255 never. `dispatch_any`: three requests, two of them `OUT_OF_QUEUE`, one of these
unsupported, and one that the user may halt; two detached threads, so that two requests end
at the same time, or two dispatches of one request are executed at once after a restart;
restarts are not counted; the limit, on which no safety property depends, stays at 50 and no
Url is invalid, as an exchange of the request that the user may halt returns without an
outcome as well. `dispatch_careful`: two requests, one with an invalid Url, so that a
request settles beside one that never does, and one callback scans past the other's request;
both limits; restarts are not counted. The five invariants of this run are proved for any
number of requests. `exchange_all`: bodies of three bytes in frames of at most two, so that
a body takes two or three pieces; two chunks, one with a size of two digits; a peer that
sends less than it announced and one that sends more; one user thread, as a second one adds
only races between two users. Request texts of 0, 1 and 2 bytes. Counters need no bound:
each exchange has at most two outcomes. `messages`: three calls of setters (`MaxCalls`) on
each Url, so that two hosts, or one host in two calls and an address, meet a third part; GET
and POST (PUT has the text of POST, lines 120-230); two parameters are enough for separators
between and behind them. `callbacks`: two announcements in all (`MaxAnnounced`), by one or
two threads, or one in the other (`MaxDepth` 2); three registrations (`MaxRegistered`),
which make a vector grow from one element and from two. Deadlock is not checked where the
system stops when it has nothing left to do. Symmetry is used only in `dispatch_any`, which
checks invariants: detached threads, and requests no constant tells apart, are
interchangeable there.

**Fairness.** Threads are scheduled: weak fairness of the worker, of a call of `addRequest`
in progress, of the join, of the Runner and of each callback. Strong fairness of "this
coroutine ends when it runs": every loop of a coroutine tests the time-out of its request
and returns when it has passed, and the coroutine is resumed again and again. That the loop
of the asynchronous handler goes on, resumes each coroutine (strong fairness of `Begin(q)`)
and ends when it is told to is assumed in the dispatcher's model only while the limit is 255
(`DispFairness`): `async` checks that the handler provides it then, and `async_hang` that it
does not with the default of 50. As `run()` sets the default each time, a client has to set
255 each time, and `RequestsSettle` and `StopReturns` of the dispatcher claim nothing where
it does not. In the exchange, weak fairness of the handler as a whole: it is resumed again
and again, and if nothing else happens in a phase its time-out does; and of a user's call in
progress. Nothing is assumed of users, so `RequestsSettle` excepts the time from a `pause()`
or `stop()` on. The violations of liveness properties are stated under the same fairness.

**Sensitivity.** The definitions under "What a slip in the code would make ..." are
in no specification. For each property of a passing run, `PROJECT.json` names one
that, put in the place of the original, makes TLC find the property violated.

## 4. Proofs

All theorems hold for every set of requests, threads and users, all limits, settings
and sizes; they assume `AsyncAssumption`, `NoneAssumption`, `DispatcherAssumption`,
`RequestAssumption`, `ExchangeAssumption`, `PeerAssumption`, `CallbacksAssumption`,
`UrlAssumption`, `WordsAssumption`, `NamesAssumption` and `HttpAssumption`, which TLC
evaluates in the runs of their modules. Three theorems about messages have a hypothesis
besides (see there).

**Induction.** The induction theorems of the library take an operator as a parameter and
cannot be instantiated here. `SequenceLemmas` states induction for sets instead
(`InductionOnNat`, `InductionUpTo`): a set that has 0, and n + 1 with n, has every number,
as the numbers it has not would have a least one. The set is that of the lengths of which
the claim holds. `RecursionUpTo` says that a recursive function has the value its
definition gives, and with both the lemmas say what `Keep`, `FlattenSeq` and the
percent encoding of a text compute, for texts and lists of every length.

**Asynchronous handler.** The inductive invariant `AsyncInv` adds to the checked properties
that the iterator is in range (`IteratorInRange`), that a request has at most one coroutine,
as its caller appends it once (`OneCoroutineEach`), and that only a request that was let in
has been resumed (`PassedWasLetIn`). The first is needed for every step that reads the list
at the iterator; the last because a request appended during the pass must not count as
passed. From it follow `PassedIsPrefix`, `CounterIsKeptMinusEnded`, `SpinHasACause`, the
action property `OneResumePerPass`, and the refinement `AsyncImplementsPool`: each action
maps to an action of `CoroutinePool` or to a stutter, with a coroutine counted as done from
the moment `resume()` answered false (`StageOf`). `NeverSpinsAtTopLimit` proves that the
limit 255 avoids the hang.

**Dispatcher.** `DispInv` joins the checked invariants with what relates them: what the
Runner has in hand is listed while it holds the lock (`TakenAgrees`); the lists hold only
what was submitted (`OnlySubmitted`); callbacks belong to requests (`CallbacksAgree`); one
thread at a time is in a critical section (`LocksExclusive`, which the guards give and the
other parts use); an iterator is at an active request or dangles (`IteratorsAgree`); and a
failed request is in no other list except while it is being erased (`FailedIsOver`).
`FailedIsOver` is why a failure is stored only once: `ScanStore` finds its request active,
`ErrorFree` says nobody is erasing, so the request has not failed before. `FailedIsOver` is
conditional: a thread that was stopped by a dangling iterator while it held
`m_error_nr_lock` leaves a failed request pending, but then nobody else can store anything.
Steps that touch neither list share `QuietStep`; the callbacks share `CallbackMoves` and
`ErasureKeepsInv`. That `run()` may be called again needs `PoolAtRest`: when the Runner has
returned because of a stop, no callback of the thread of the coroutines is running, so that
nothing of the old pool is in the new one (`RunAgainKeepsInv`). A request that was let in
and is not in the list of coroutines yet is in the hand of the Runner, which holds the lock
(`AdmittedAgrees`); hence `NoneAdmittedBehindStopAlways`. `DispUsesPool` shows that the
dispatcher uses the pool only as it may be used.

`CarefulClient_proofs` is about careful clients (`Careful`) without OUT_OF_QUEUE requests
(together: `Gentle`). `CarefulInv` adds where the Runner can be while `stop()` is under way
or a new pool has not been launched: asleep, because of the pause that the client set before
it stopped (`RunnerAndStop`). So a request is handed over only while the pool works, is
admitted, and no failed callback runs under the Runner's lock
(`RunnerNeverLocksTwiceAlways`). Only the thread of the coroutines runs callbacks
(`OnlyAsync`); its iterator never dangles and never passes its own request, because the list
grows at its end only while it looks (`LooksBefore`). `StagesAgree` ties the list to the
pool in both directions: a request with a coroutine is active until a callback takes it out,
which is why its callback finds it, and an active request has a coroutine, unless it was
halted or has an invalid Url. That a request is handed over at most once between two starts
is `FreshAgrees`. The five properties of `dispatch_careful` follow, for any number of
requests, stops and restarts.

**Exchange.** `OutcomeInv` counts the outcomes, those announced and the one whose call
has begun, and says for each place of `pcH` how many there are: none up to the last
statement, and at `stored` as many as `m_error` says. So `Stored` must test the error.
An error of a request with a valid Url has its outcome already, so that `stop()`, which
cancels only what has none, revives nothing that failed (`StopKeepsOutcome`); and a request
with an invalid Url, whose error came without an outcome, never gets past the headers
(`BeforeBody`). The other steps of the exchange are of three kinds (`StepKinds`): they call
nothing, announce a status that is no outcome, or conclude with one; each kind has one
proof. `OneOutcomeAlways` follows. `StreamInv` says that with a careful client only the
handler has a stream, and that it has one wherever it uses it; a thread about to reset
the stream is therefore alone (`ResetIsAlone`), which gives `NoNullStreamAlways`.

`ExchangeResults_proofs` goes on to what an exchange leaves behind. `HaltInv` says that an
exchange that has returned without an outcome found the request halted, of which a user's
later call may be the only trace, and gives `OutcomeUnlessHaltedAlways`. `FileInv` says when a
careful client's request has a stream (while nothing has ended it, or until the call that
ends it resets it) and a file that must go (until that call removes it), and gives
`NoRemainsAlways`. For `CarefulFileAlways` two more are needed: `TextsInv`, that what is on
the way and in the file are sequences, and that no body is read where the reply has none
(there an outcome comes before the end); and `WrittenInv`, that the file holds what was read
without the piece in hand, that an open stream writes the file that has the path (no file is
removed under it), and that a stream was reset only after the flag or outcome that says why,
so that a file that has content is not truncated by a new stream.

What was read is the subject of further invariants. `BodyInv` says of a punctual peer
that what was handed to `addResponseData()` is the beginning of the body, that what is
missing of the body or of the chunk still comes in the stream and `remain` says how much
that is (`Ahead`), that behind a chunk the rest is again a chunking of the rest of the body,
and that all of it has been read where DONE is set. It needs `Placed`: the exchange is in a
loop only if the reply has the framing of that loop, and one that is handled again was
canceled and gets no farther than its connection. `PunctualDoneMeansCompleteAlways` follows,
for bodies, chunks and pieces of every size. `MemoryInv` relates memory to what was read:
they differ by the piece on the way. With `BodyInv` it gives `MemoryIsPrefixAlways`, and
with the type of the number in a size line (`Number` of its `Digits`) comes
`ExchangeTypeCorrect`.

`ExchangeImplementsTransfer` joins these. A piece is read only before any outcome is announced
(`OutcomeInv`) and extends what was read by the next bytes of the body (`BodyInv`); the
first outcome that is told is DONE only with the whole body. For replies with
`Content-Length: 0`, which `OneOutcome` excepts, `EmptyInv` says what the two outcomes are:
DONE is announced only at the end of the exchange, so that no error comes with it, and the
second DONE is a stutter of `Transfer`. (`PunctualDoneMeansComplete` is implied by
`ImplementsTransfer`, and the run checks the latter.)

**Callbacks.** `CallbacksInv` says that each frame's loop is in a list of its plan and no
farther than its end, that its end is inside the list, and that a careful client's plain
pointers are alive. The end was taken when the loop began; that it stays inside is what a
list that only grows gives, and that it is still the vector's own is what the discipline
gives. The fields of a frame that are history are in some set large enough (`FramesIn`):
they need no more precise type. From it follow `CallbacksTypeCorrect` and
`NothingUndefinedAlways`. `DueInv` is what `EachDueOnceAlways` needs: for each frame there is
a sequence `D`, with one element for each list of the plan, the callbacks due there. From
the list that the loop is in, the elements are what the vectors hold, and what the frame has
called is the flattening of the elements before that and of the beginning of this one. That
no list which a loop may still use grows meanwhile is the discipline of the careful client.

**Urls and messages.** `AddressInv` gives `AddressIsOfHostAlways`: as long as one host was
named and no address was given, the addresses are among those the directory has for the
host, and there are none only after a resolution that failed silently; the addresses that an
object keeps of an earlier host are why the property is conditional. `RequestInv` gives
`MessageTypeCorrect`: every member of a request, and what is composed of it, is a text of
tokens, and a port is below 2^16 whatever `stoi()` answers. `EncodingIsReadBack` is about
the operator that encodes: whatever characters a setter encodes, if `%` is one of them,
decoding gives back any text that has no sign of an encoding but `%` itself. Its induction
goes along the text (`MappedAppend`, `DecodedPercent`).

The texts of `messages` are of a few tokens; the theorems that read back what was written
are for texts of every length.

* `ComposedIsAlwaysReadBack` needs `PartsInv`, which no property states: a path holds no `?`
  and a query no `#`, wherever they come from; the number of a port is that of its text, or
  the text is one given to `setPort()` that is no number. With that and
  `Readable` the constructor finds each delimiter where `composeUrl()` has put it: the first
  `:` behind the scheme (`SchemeIsRead`), `//` at the front and `/` behind the authority
  (`AuthorityIsParted`), the last `@` and the `:` behind it (`SiteIsReadBack`), `?` and `#`
  (`TailIsRead`).
* `ResponseIsAlwaysReadBack` keeps in `HeadInv` what the response is. The head that is spelled
  is a list of lines (`SpellIsLines`), `Pieces` gives that list back with two empty texts
  behind it (`PiecesOfLines`), and each line of it is read as its field (`LegibleIsRead`) or is
  no header.
* `FieldsAreAlwaysReadBack` is an action property: when the data is composed, the pieces
  between `&` are the parameters in their order (`PiecesOfJoined`), each decoded to its value,
  and in a GET request they stand behind the first `?` of the target, which ends at the first
  space (`DataTarget`, `GetIsRead`). `ParamsInv` says that the parameters are those that were
  given, for which `HttpAssumption` holds.
* `LengthAlwaysMatchesBody` follows from `LinesInv`: until the data is composed, what the
  request holds breaks no line and writes no length (`OwnRequest`); from then on its first
  blank line is the one before the body (`HeadIsWhole`: no two ends of a line stand side by
  side in a list of lines that are not empty), and the lines before it are the first line and
  the headers, of which one tells the length of the body (`DataFits`). A `setRequest()` after
  that puts data without a head in its place.

Three hypotheses are statements about all numbers or all texts, which TLC cannot evaluate;
the instance, whose `Words` are all strings and whose inputs hold no end of a line,
satisfies them. `LengthsAreWords` (of `MessageTypeCorrect` and `FieldsAreAlwaysReadBack`): the
decimal text of any number is one token. `ToString` is an operator of TLC, of which the
prover knows nothing. `LengthsAreInLine` (of `LengthAlwaysMatchesBody`) says besides that it is
not an end of a line. `OwnLines` (likewise) is what a client must see to, as nothing in the
code does: a header, a path or a query with an end of a line is sent as it is, and so is a
second Content-Length. A body and the parameters of a form may hold ends of lines.

**Only model-checked.** Liveness (`CoroutinesReturn`, `StopReturnsAtTopLimit`,
`RequestsSettle`, `StopReturns`, `RunReturns`, `ExchangeEnds`): the prover has no rules for
fairness and `ENABLED`. All other properties that the passing runs check are proved,
invariants and action properties, those of `dispatch_careful`, of a careful client's file
and of callbacks under the assumption they name. The violations that the other runs find are
shown on their instances.

## 5. Not modelled

Sockets, logging, uuid generation and formatting of addresses; the accessors that return
references to the lists; `notifyWhenExit` and its callbacks. `checkFileName` is called by
nothing; `HttpParams(text)` neither, and it never ends when there is a parameter. The
priorities and the comparison of requests, which the multiset of pointers ignores; the
delimiter, which nothing reads. In `Url` the tests for a host that is too long or that begins
or ends with a hyphen are merged with that for a character that is not allowed: all set an
error of the host and return. The data race on a `std::list` that is read without a lock is
modelled as an interleaving of whole operations plus dangling iterators.

## 6. Plan

1. `CoroutinePool`, `AsyncRequestHandler`, `NetworkRequestsHandler` with runs and
   proofs - done.
2. `NetworkRequest` and `RequestExchange` with runs and first proofs - done.
3. Restart of the dispatcher, requests canceled by the stop, and their second exchange -
   done.
4. `RequestCallbacks` with its proofs, `Url` and `HttpMessage` - done.
5. The careful client's properties of the dispatcher, what an exchange leaves behind and
   what it has read, each due callback, addresses and types of messages: theorems - done.
6. `Transfer`, the abstract specification of an exchange, with the proof that
   `RequestExchange` implements it - done.
7. What is composed of Urls and messages is read back, and the length that is sent is that
   of the body: theorems for texts of every length - done.
8. Left: the formats that are not modelled (section 5), and the liveness properties, which
   stay with TLC.
