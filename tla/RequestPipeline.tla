--------------------------- MODULE RequestPipeline ---------------------------
(***************************************************************************)
(* One request on its way through the HTTP transport (transport/http) and, *)
(* with the same middlewares and handler, through the gRPC transport       *)
(* (transport/grpc): the interceptors, the middleware chain, the handler,  *)
(* the error envelope, recovery from panics, CORS and static files.        *)
(*                                                                         *)
(* The HTTP handlers run inside one another: CORS, recovery, the request   *)
(* interceptor with the middlewares in it, recovery again and the route.   *)
(* The state they share is a record that is passed through them.  A path   *)
(* is the sequence of its segments, cleaned.                               *)
(***************************************************************************)
EXTENDS Naturals, Sequences, FiniteSets, SequencesExt

CONSTANT MaxMiddlewares     \* bound: middlewares given to Use

ASSUME PipelineAssumption == MaxMiddlewares \in Nat

VARIABLE exchange           \* a server, a request and what its handler does

-----------------------------------------------------------------------------
(* Errors (pkg/errs) and what the transports make of their codes.          *)

Codes ==
    {"OK", "Exit", "Invalid", "Exists", "Unavailable", "Incompatible", "Internal", "TooLarge",
     "UnsupportedFormat", "Malformed", "MissingField", "OutOfRange", "Conflict", "Unprocessable",
     "NotImplemented", "Timeout", "Expired", "Canceled", "DeadlineExceeded", "RateLimited",
     "QuotaExceeded", "Unauthorized", "TokenExpired", "PermissionDenied", "NotFound",
     "AccessDenied", "TokenInvalid", "PreconditionFailed", "TooManyAttempts",
     "NetworkUnreachable", "ConnectionRefused", "DatabaseError", "UniqueViolation", "Deadlock",
     "CacheError", "UpstreamError"}

HTTPStatus(c) ==
    CASE c = "NotFound" -> 404
      [] c \in {"PermissionDenied", "AccessDenied"} -> 403
      [] c \in {"TokenExpired", "Unauthorized", "TokenInvalid"} -> 401
      [] c \in {"Invalid", "Malformed", "MissingField", "OutOfRange"} -> 400
      [] c = "TooLarge" -> 413
      [] c = "UnsupportedFormat" -> 415
      [] c \in {"Exists", "Conflict", "UniqueViolation"} -> 409
      [] c = "Unprocessable" -> 422
      [] c = "PreconditionFailed" -> 412
      [] c \in {"RateLimited", "QuotaExceeded", "TooManyAttempts"} -> 429
      [] c \in {"Timeout", "DeadlineExceeded"} -> 504
      [] c = "Canceled" -> 499
      [] c \in {"Unavailable", "DatabaseError", "CacheError", "Deadlock", "UpstreamError"} -> 503
      [] c = "NotImplemented" -> 501
      [] OTHER -> 500

GRPCStatus(c) ==
    CASE c = "NotFound" -> 5
      [] c \in {"Exists", "UniqueViolation"} -> 6
      [] c \in {"PermissionDenied", "AccessDenied"} -> 7
      [] c \in {"Invalid", "Malformed", "MissingField", "OutOfRange", "TooLarge",
                "UnsupportedFormat", "Unprocessable"} -> 3
      [] c \in {"Conflict", "Deadlock"} -> 10
      [] c = "PreconditionFailed" -> 9
      [] c \in {"RateLimited", "QuotaExceeded", "TooManyAttempts"} -> 8
      [] c \in {"Timeout", "DeadlineExceeded"} -> 4
      [] c = "Canceled" -> 1
      [] c \in {"Unavailable", "DatabaseError", "CacheError", "UpstreamError"} -> 14
      [] c = "NotImplemented" -> 12
      [] c \in {"TokenExpired", "Unauthorized", "TokenInvalid"} -> 16
      [] c = "Internal" -> 13
      [] OTHER -> 2

\* An error: wrapped by middleware.Abort or not, with an *errs.Error inside
\* (found by errors.As through any wrapping) or plain.
Err(abort, code) == [abort |-> abort, code |-> code]
NoError == Err(FALSE, "none")
Coded(e) == e.code \in Codes

-----------------------------------------------------------------------------
(* The response, and what the handlers of a request share.                 *)

\* A written response: an envelope, a file, or a bare status.
Envelope(status, code) == [status |-> status, code |-> code]
HandlerBody == Envelope(200, "handler")
PanicBody == Envelope(500, "Internal")
NotFoundBody == Envelope(404, "NotFound")
PreflightBody == [status |-> 204]

Fresh ==
    [passed |-> FALSE,        \* gin has run the rest of its handlers, or Abort skips them
     written |-> <<>>,        \* the responses written so far
     err |-> NoError,         \* gin's Errors.Last()
     panic |-> FALSE,         \* a panic is unwinding the stack
     ran |-> 0,               \* how often the route's handler ran
     origin |-> "none", credentials |-> FALSE]    \* the CORS headers

\* What Handle makes of the state st: the state is computed once.
Then(st, Handle(_)) == [s \in {st} |-> Handle(s)][st]

Abort(st) == [st EXCEPT !.passed = TRUE]
Write(st, body) == [st EXCEPT !.written = Append(@, body)]

\* Mutant of AbortWithEnvelope: the chain is not aborted.
AbortWithEnvelopeOnly(st, body) == Write(st, body)

AbortWithEnvelope(st, body) == Abort(Write(st, body))

\* The envelope requestInterceptor answers an error with.
ErrorEnvelope(e) ==
    IF Coded(e) THEN Envelope(HTTPStatus(e.code), e.code)
    ELSE IF e.abort THEN Envelope(200, "OK")
    ELSE Envelope(500, "Unavailable")

\* What the handler of a registered route does: it writes, or not, and
\* returns an error, which register hands to gin, or panics.
RunHandler(x, st) ==
    LET wrote == IF x.handler.writes THEN Write(st, HandlerBody) ELSE st
        ran == [wrote EXCEPT !.ran = @ + 1]
    IN  IF x.handler.panics THEN [ran EXCEPT !.panic = TRUE]
        ELSE IF x.handler.returns = NoError THEN ran
        ELSE [ran EXCEPT !.err = x.handler.returns]

-----------------------------------------------------------------------------
(* Static files (notFoundHandle, staticHandle, filesystem.Open).           *)

NoFile == <<>>

\* filesystem.Open: the webroot's prefix is added to a path outside it; a
\* directory is refused, but for the root, which is its index file.
Open(x, uri) ==
    LET name == IF IsPrefix(x.prefix, uri) THEN uri ELSE x.prefix \o uri
        index == Append(name, "index.html")
    IN  IF name \in x.files THEN name
        ELSE IF uri = <<>> /\ index \in x.files THEN index
        ELSE NoFile

Gz(uri) == IF uri = <<"a">> THEN <<"a.gz">> ELSE IF uri = <<"w", "a">> THEN <<"w", "a.gz">> ELSE <<".gz">>

AcceptsGzip(x) == x.encoding \in {"gzip", "upgrade"}     \* "upgrade": gzip, on an Upgrade connection
SmallFile == 8192                                        \* bytes: up to this it is not worth compressing
ShouldCompress(x) == x.autoCompress /\ x.encoding = "gzip" /\ x.asset

\* staticHandle on a file whose Stat succeeds: how often the bytes sent are
\* compressed, whether the header says so, and whether the Range header is
\* still obeyed.
StaticHandle(x, file, preCompressed) ==
    LET compress == ~preCompressed /\ ShouldCompress(x) /\ x.size > SmallFile
        useGzip == compress \/ (preCompressed /\ AcceptsGzip(x))
    IN  [status |-> 200, file |-> file, announced |-> useGzip, ranged |-> x.ranged /\ ~useGzip,
         layers |-> (IF preCompressed THEN 1 ELSE 0) + (IF compress THEN 1 ELSE 0)]

\* A file that opens but whose Stat fails is answered as if there were none; a
\* compressed variant is only looked for when the file itself does not open.
NotFoundHandle(x, st) ==
    LET plain == Open(x, x.uri)
        zipped == Open(x, Gz(x.uri))
        served == x.webroot /\ x.method = "GET" /\ x.stat
    IN  IF served /\ plain # NoFile THEN Abort(Write(st, StaticHandle(x, plain, FALSE)))
        ELSE IF served /\ AcceptsGzip(x) /\ zipped # NoFile
        THEN Abort(Write(st, StaticHandle(x, zipped, TRUE)))
        ELSE Write(st, NotFoundBody)

-----------------------------------------------------------------------------
(* CORS (transport/http/cors.go).                                          *)

\* validateCORS: New panics when it fails.
ValidateCORS(cfg) ==
    /\ cfg.origins # {}
    /\ "malformed" \notin cfg.origins
    /\ ~("*" \in cfg.origins /\ cfg.credentials)

OriginAllowed(x) == {"*", x.origin} \cap x.cors.origins # {}

CORSHeaders(x, st) ==
    [st EXCEPT
        !.origin = IF x.cors.credentials \/ "*" \notin x.cors.origins THEN x.origin ELSE "*",
        !.credentials = x.cors.credentials]

-----------------------------------------------------------------------------
(* The pipeline.                                                           *)

\* One middleware around a handler: next is what calling the handler in the
\* state st comes to, a state and an error.
Around(m, st, next) ==
    LET r == IF m.calls THEN next ELSE [st |-> st, err |-> NoError] IN
    IF r.st.panic THEN r
    ELSE IF m.panics THEN [r EXCEPT !.st.panic = TRUE]
    ELSE IF m.forwards THEN r
    ELSE [r EXCEPT !.err = m.returns]

\* middleware.Chain wraps the transport's handler from the inside out: the
\* first middleware is the outermost.
Chain(x, st, next) ==
    LET handler[n \in 0..Len(x.chain)] ==
            IF n = 0 THEN next ELSE Around(x.chain[Len(x.chain) + 1 - n], st, handler[n - 1])
    IN  handler[Len(x.chain)]

\* What the deferred function makes of the state r that Next leaves: a panic is
\* turned into an envelope, unless something was written.
RecoveryInterceptor(r) ==
    LET calm == [r EXCEPT !.panic = FALSE] IN
    IF ~r.panic THEN r
    ELSE IF r.written = <<>> THEN AbortWithEnvelope(calm, PanicBody)
    ELSE Abort(calm)

Route(x, st) == IF x.routed THEN RunHandler(x, st) ELSE NotFoundHandle(x, st)

\* gin (external): the interceptor's Next runs the handlers behind it, the
\* inner recovery and the route.
NextOfRequest(x, st) == Abort(Then(Route(x, st), RecoveryInterceptor))

\* An error is turned into an envelope, unless something was written.
RequestInterceptor(x, st) ==
    LET next == NextOfRequest(x, st)
        r == Chain(x, st, [st |-> next, err |-> next.err])
    IN  IF r.st.panic \/ r.err = NoError \/ r.st.written # <<>> THEN r.st
        ELSE AbortWithEnvelope(r.st, ErrorEnvelope(r.err))

\* gin (external): a handler that neither called Next nor aborted is followed
\* by the next one; a panic skips it.
NextOfRecovery(x, st) ==
    LET Follow(r) == IF r.panic \/ r.passed THEN r ELSE NextOfRequest(x, r)
    IN  Then(RequestInterceptor(x, st), Follow)

\* The handlers behind CORS.
NextOfCORS(x, st) == Then(NextOfRecovery(x, st), RecoveryInterceptor)

CORSInterceptor(x, st) ==
    IF x.origin = "" \/ ~OriginAllowed(x) THEN NextOfCORS(x, st)
    ELSE IF x.method # "OPTIONS" THEN NextOfCORS(x, CORSHeaders(x, st))
    ELSE Abort(Write(CORSHeaders(x, st), PreflightBody))

\* The HTTP server's answer: New installs the interceptors in this order, CORS
\* only when it is configured.
ServeHTTP(x) == IF x.cors.origins = {} THEN NextOfCORS(x, Fresh) ELSE CORSInterceptor(x, Fresh)

\* grpc-go (external): the status of an error that reaches it as it is.  A
\* status error keeps its own, the context's Canceled and DeadlineExceeded
\* have one, any other error is Unknown.
StatusErrors ==
    <<"canceled", "unknown", "invalid argument", "deadline exceeded", "not found", "already exists",
      "permission denied", "resource exhausted", "failed precondition", "aborted", "out of range",
      "unimplemented", "internal", "unavailable", "data loss", "unauthenticated">>
OwnStatus(e) ==
    IF \E k \in 1..16 : StatusErrors[k] = e.code
    THEN CHOOSE k \in 1..16 : StatusErrors[k] = e.code
    ELSE 2

\* mapGRPCError: 0 is success.
MapGRPCError(e) ==
    IF e = NoError THEN 0
    ELSE IF Coded(e) THEN GRPCStatus(e.code)
    ELSE IF e.abort THEN 0
    ELSE OwnStatus(e)

\* unaryServerInterceptor (and the streaming one): nothing recovers a panic.
UnaryServerInterceptor(x) ==
    LET next == RunHandler(x, Fresh)
        r == Chain(x, Fresh, [st |-> next, err |-> next.err])
    IN  [status |-> MapGRPCError(r.err), ran |-> r.st.ran, panic |-> r.st.panic]

-----------------------------------------------------------------------------
(* The exchanges to try.                                                   *)

Uncoded == {"plain"} \cup {StatusErrors[k] : k \in 1..16}
Errors == {NoError, Err(FALSE, "TooManyAttempts"), Err(FALSE, "plain"), Err(TRUE, "AccessDenied"),
           Err(TRUE, "plain")}

\* A middleware calls next or not; then it forwards the error, hides it,
\* returns one of its own (of the set E) or panics.
Middlewares(E) ==
    {m \in [calls : BOOLEAN, forwards : BOOLEAN, panics : BOOLEAN, returns : E] :
        /\ m.forwards \/ m.panics => m.returns = NoError
        /\ ~(m.forwards /\ m.panics)
        /\ ~m.calls => ~m.forwards}
HandlerRuns(E) ==
    {h \in [writes : BOOLEAN, panics : BOOLEAN, returns : E] : h.panics => h.returns = NoError}

NoCORS == [origins |-> {}, credentials |-> FALSE]
Plain ==
    [chain |-> <<>>, method |-> "GET", routed |-> TRUE,
     handler |-> [writes |-> TRUE, panics |-> FALSE, returns |-> NoError],
     cors |-> NoCORS, origin |-> "",
     webroot |-> FALSE, prefix |-> <<>>, files |-> {}, uri |-> <<>>, encoding |-> "none",
     autoCompress |-> FALSE, asset |-> TRUE, size |-> SmallFile, ranged |-> FALSE,
     stat |-> TRUE]           \* whether Stat succeeds on the file that opened

\* A request through middlewares to its handler, one from another origin, and
\* one for a file.
Handling(chain, handler) == [Plain EXCEPT !.chain = chain, !.handler = handler]
Crossing(cfg, origin, method, chain, handler) ==
    [Handling(chain, handler) EXCEPT !.cors = cfg, !.origin = origin, !.method = method]
Fetching(method, prefix, uri, files, encoding, size, compress, asset, stat) ==
    [Plain EXCEPT !.routed = FALSE, !.webroot = TRUE, !.ranged = TRUE,
                  !.method = method, !.prefix = prefix, !.uri = uri, !.files = files,
                  !.encoding = encoding, !.size = size, !.autoCompress = compress, !.asset = asset,
                  !.stat = stat]

\* The webroot's prefixes, the paths asked for, and the files there may be.
WebPrefixes == {<<>>, <<"w">>}
Uris == {<<>>, <<"a">>, <<"w">>, <<"w", "a">>, <<"b">>}
Files == {<<"a">>, <<"w", "a">>, <<"w", "a.gz">>, <<"w", "index.html">>}

PipelineInit ==
    \/ \E chain \in BoundedSeq(Middlewares(Errors), MaxMiddlewares), handler \in HandlerRuns(Errors) :
          exchange = Handling(chain, handler)
    \/ \E c \in Codes \cup Uncoded, a \in BOOLEAN :
          exchange = Handling(<<>>, [writes |-> FALSE, panics |-> FALSE, returns |-> Err(a, c)])
    \/ \E cfg \in {c \in [origins : SUBSET {"*", "o1", "malformed"}, credentials : BOOLEAN] : ValidateCORS(c)},
          origin \in {"", "o1", "o2"}, method \in {"GET", "OPTIONS"},
          chain \in BoundedSeq(Middlewares(Errors), 1), handler \in HandlerRuns(Errors) :
          exchange = Crossing(cfg, origin, method, chain, handler)
    \/ \E prefix \in WebPrefixes, uri \in Uris, files \in SUBSET Files,
          encoding \in {"none", "gzip", "upgrade"}, size \in {SmallFile, SmallFile + 1},
          method \in {"GET", "POST"}, compress, asset, stat \in BOOLEAN :
          exchange = Fetching(method, prefix, uri, files, encoding, size, compress, asset, stat)

-----------------------------------------------------------------------------
(* Properties.                                                             *)

\* Whether every middleware lets the request through to its handler.
Reached(x) == \A k \in 1..Len(x.chain) : x.chain[k].calls
Preflight(x) == x.origin # "" /\ OriginAllowed(x) /\ x.method = "OPTIONS"

\* The last word of the chain: the error of the outermost middleware that does
\* not forward the one it got.
Verdict(x) ==
    LET k == SelectInSeq(x.chain, LAMBDA m : ~m.forwards)
    IN  IF k = 0 THEN x.handler.returns ELSE x.chain[k].returns

\* A request that some middleware did not pass on, though the chain reports no
\* error (a middleware returned nil without calling next, or hid the error of
\* an inner one): gin then goes on to the handler, behind the interceptor's back.
MiddlewarePanics(x) ==
    \E k \in 1..Len(x.chain) : x.chain[k].panics /\ \A j \in 1..(k - 1) : x.chain[j].calls
Hidden(x) == ~Reached(x) /\ ~MiddlewarePanics(x) /\ Verdict(x) = NoError

\* Whatever middlewares and handler do (fail, panic before or after the
\* handler, hide or replace an error), no panic leaves the HTTP server, the
\* client gets one response and never a second envelope behind the handler's
\* own, a request that a middleware refused does not reach its handler unless
\* the refusal was hidden, and what fails without a response is told so, with
\* the error's own code.
AnsweredOnce(x, r) ==
    LET handled == x.routed /\ ~Preflight(x)
        panics == MiddlewarePanics(x) \/ (r.ran = 1 /\ x.handler.panics)
    IN
    /\ ~r.panic
    /\ Len(r.written) <= 1
    /\ r.ran = IF handled /\ (Reached(x) \/ Hidden(x)) THEN 1 ELSE 0
    /\ (r.ran = 1 /\ x.handler.writes) => r.written = <<HandlerBody>>
    /\ (handled /\ ~Hidden(x) /\ ~panics /\ (r.ran = 0 \/ ~x.handler.writes)) =>
          r.written = IF Verdict(x) = NoError THEN <<>> ELSE <<ErrorEnvelope(Verdict(x))>>
    /\ (handled /\ panics) => r.written # <<>>

\* Both statuses mean success or failure; both blame the same side.
SameOutcome(status, grpc) == (status >= 300) = (grpc # 0)
SameSide(status, grpc) ==
    /\ status \in 500..599 => grpc \in {2, 4, 10, 12, 13, 14}
    /\ status \in 400..499 => grpc \in {1, 3, 5, 6, 7, 8, 9, 10, 16}

\* The same middlewares and handler behind gRPC run the handler in the same
\* cases and succeed or fail alike, whatever the error; an *errs.Error blames
\* the same side in both (a deadlock, which gRPC calls Aborted, is the server's
\* in HTTP).  Any other error is 500 in HTTP and keeps its own status in gRPC,
\* which may be a client's.
TransportsAgree(x, http, grpc) ==
    (x.routed /\ ~Preflight(x) /\ ~Hidden(x)) =>
        /\ grpc.ran = http.ran
        /\ (~grpc.panic /\ http.written # <<>> /\ http.written # <<HandlerBody>>) =>
              /\ SameOutcome(http.written[1].status, grpc.status)
              /\ Coded(Verdict(x)) => SameSide(http.written[1].status, grpc.status)

\* A file comes from the webroot, compressed once at most and announced as it
\* was sent, never compressed for a client that did not ask for it, and a Range
\* is only cut from uncompressed bytes.  CORS names the origin of an allowed
\* request only, and never "*" together with credentials.
FilesHonest(x, r) ==
    \A f \in {w \in Range(r.written) : "file" \in DOMAIN w} :
        /\ IsPrefix(x.prefix, f.file) /\ f.file \in x.files
        /\ f.layers = IF f.announced THEN 1 ELSE 0
        /\ f.announced => AcceptsGzip(x) /\ ~f.ranged
CORSHonest(x, r) ==
    /\ (r.origin # "none") = (x.cors.origins # {} /\ x.origin # "" /\ OriginAllowed(x))
    /\ r.origin \in {"none", "*", x.origin}
    /\ r.credentials => r.origin = x.origin

\* One request, one answer, the same on both transports.
OneAnswer ==
    \A http \in {ServeHTTP(exchange)}, grpc \in {UnaryServerInterceptor(exchange)} :
        /\ AnsweredOnce(exchange, http)
        /\ TransportsAgree(exchange, http, grpc)
        /\ FilesHonest(exchange, http)
        /\ CORSHonest(exchange, http)

==============================================================================
