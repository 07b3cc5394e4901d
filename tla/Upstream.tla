------------------------------ MODULE Upstream ------------------------------
(***************************************************************************)
(* One step of a run and the upstream service that executes it: the        *)
(* engine's attempts (src/internal/exec/engine.go, retry.go), the          *)
(* adapters' calls (src/internal/provider/adapter) and the tries of the    *)
(* shared transport (src/internal/provider/transport.go, errors.go,        *)
(* idempotency.go).                                                        *)
(*                                                                         *)
(* A call made over a connection that has been given up stays with the     *)
(* upstream, which may still execute it and charge for it; its answer is   *)
(* lost. The step may be canceled at any time.                             *)
(***************************************************************************)
EXTENDS Integers, FiniteSets, ScriptAnswer

CONSTANTS
    Requests,       \* the steps that may be executed
    Objects,        \* the JSON objects a scripted upstream answers with
    HonoursKeys,    \* does the upstream keep answers by idempotency key
    MaxTries,       \* tries of the transport (NewTransport: 3)
    MaxAttempts,    \* attempts of the engine (DefaultRetryPolicy: 3)
    None

ASSUME LimitsAssumption == MaxTries \in Nat \ {0} /\ MaxAttempts \in Nat \ {0}

(* parsePath splits the response path of a plan into its steps.            *)
ASSUME PathsAssumption ==
    \A r \in Requests : r.plan # None => r.plan.responsePath \in Seq(PathStep)

(* What an upstream may keep: an answer by the key of its step.            *)
KeptOf(bodies) == [key : {"step"}, body : bodies]

ASSUME NoneAssumption ==
    None # "step" /\ None \notin KeptOf(Objects)
                  /\ None \notin KeptOf({"results", "nothing"})

VARIABLES
    request,    \* the step being executed
    phase,      \* where the engine's goroutine stands
    attempt,    \* which attempt of the engine (engine.go: attempt)
    try,        \* which try of the transport (transport.go: attempt)
    sent,       \* the calls sent so far
    served,     \* those of them the upstream is done with
    kept,       \* the answer the upstream keeps for the key
    bills,      \* executions the upstream charged for
    answer,     \* the answer waiting on the open connection
    class,      \* what became of the last try
    canceled,   \* the run's context is done
    result      \* what the adapter made of a good answer

vars == <<request, phase, attempt, try, sent, served, kept, bills, answer,
          class, canceled, result>>

client   == <<request, phase, attempt, try, class, result>>
upstream == <<sent, served, kept, bills>>

-----------------------------------------------------------------------------
(* Classes of errors (errors.go). *)

Refusals == {"permanent", "content_policy", "canceled"}
Classes  == {"transient", "rate_limited"} \cup Refusals

ASSUME NamesAssumption == None \notin Classes \cup {"ok", "plain"}

(* ProviderError.Retryable and RetryPolicy.shouldRetry. *)
Retryable(c) == c \in {"transient", "rate_limited"}

(* ClassifyHTTP. *)
ClassOfStatus(status) ==
    CASE status \in {"timeout", "down"} -> "transient"
      [] status = "limited"             -> "rate_limited"
      [] status = "objectionable"       -> "content_policy"
      [] OTHER                          -> "permanent"

Statuses == {"timeout", "down", "limited", "objectionable", "invalid"}

-----------------------------------------------------------------------------
(* What the adapters send. *)

OpenAISupports == {"image.generate", "image.edit", "image.upscale",
                   "text.generate", "video.generate", "audio.generate"}
GeminiSupports == {"image.generate", "image.edit", "text.generate",
                   "video.generate", "audio.generate"}
ScriptSupports == {"image.generate", "image.edit", "image.upscale",
                   "text.generate", "text.tools", "video.generate",
                   "audio.generate", "model.list"}

Supported == [openai |-> OpenAISupports, gemini |-> GeminiSupports,
              script |-> ScriptSupports]

(* imageEditWith needs an inline image. One that does not decode leaves    *)
(* the adapter with a plain error.                                         *)
EditRefusal(r) == CASE r.images = "inline"  -> None
                    [] r.images = "damaged" -> "plain"
                    [] r.images = "none"    -> "permanent"

(* The script is missing, is stopped by the sandbox, or returned a plan    *)
(* that is not accepted.                                                   *)
PlanRefusal(r) ==
    IF r.plan # None /\ PlanAccepted(r.plan) /\ Resolves(r.plan)
    THEN None ELSE "permanent"

(* toProviderError: a plain error is taken for a failure of the network.   *)
ProviderError(c) == IF c = "plain" THEN "transient" ELSE c

(* Why a request is refused before anything is sent. *)
LocalRefusal(r) ==
    CASE r.capability \notin Supported[r.adapter] -> "permanent"
      [] /\ r.capability \in Supported[r.adapter]
         /\ r.adapter = "openai"
         /\ r.capability \in {"image.edit", "image.upscale"} -> EditRefusal(r)
      [] /\ r.capability \in Supported[r.adapter]
         /\ r.adapter = "script" -> PlanRefusal(r)
      [] OTHER -> None

\* Mutation: the request id is derived from the attempt.
KeyOfAttempt(r, a) == IF r.adapter = "openai" THEN <<"step", a>> ELSE None

(* deriveRequestID and RequestHeaders: the key is of the step, the same in *)
(* every attempt, and sent where the protocol is known to take one.        *)
Key(r, a) == IF r.adapter = "openai" THEN "step" ELSE None

(* audioSpeech reads bytes, through DoRawWithBody. *)
Raw(r) == r.adapter = "openai" /\ r.capability = "audio.generate"

-----------------------------------------------------------------------------
(* What the adapters make of an answer with a good status. A body is       *)
(* "results", "nothing" (well-formed, with no results), "garbled" (does    *)
(* not decode), or a refusal inside a body: "blocked" (a prompt feedback), *)
(* "failed", "busy" and "overloaded" (an error object, without a code of   *)
(* its own, with 429, with 500 or above). A scripted upstream answers with *)
(* one of Objects, or garbled.                                             *)

Succeeds(assets, text, task) ==
    [class |-> "ok", assets |-> assets, text |-> text, task |-> task]

Fails(c) == [Succeeds(0, FALSE, FALSE) EXCEPT !.class = c]

Results(body) == IF body = "results" THEN 1 ELSE 0

(* openai imageGenerate, imageEditWith: the body is read as a list of      *)
(* images, entries without one passed over and an error object not looked  *)
(* for.                                                                    *)
ImageResponse(body) == Succeeds(Results(body), FALSE, FALSE)

TextGenerate(body) == Succeeds(0, body = "results", FALSE)

VideoCreate(body) == IF body \in {"failed", "busy", "overloaded"}
                     THEN Fails("permanent")
                     ELSE Succeeds(0, FALSE, body = "results")

(* Whatever bytes arrive are the sound. *)
AudioSpeech(body) == Succeeds(1, FALSE, FALSE)

OpenAI(r, body) ==
    CASE r.capability = "text.generate"  -> TextGenerate(body)
      [] r.capability = "video.generate" -> VideoCreate(body)
      [] r.capability = "audio.generate" -> AudioSpeech(body)
      [] OTHER                           -> ImageResponse(body)

ClassifyEnvelope(body) == CASE body = "busy"       -> "rate_limited"
                            [] body = "overloaded" -> "transient"
                            [] body = "failed"     -> "permanent"
                            [] OTHER               -> None

ParseGenResp(r, body) ==
    CASE body = "blocked"               -> Fails("content_policy")
      [] /\ body # "blocked"
         /\ r.capability = "text.generate" ->
           Succeeds(0, body = "results", FALSE)
      [] OTHER -> Succeeds(Results(body), FALSE, FALSE)

(* gemini videoCreate: a blocked prompt is not looked for. *)
LongRunning(body) == Succeeds(0, FALSE, body = "results")

Gemini(r, body) ==
    CASE ClassifyEnvelope(body) # None -> Fails(ClassifyEnvelope(body))
      [] /\ ClassifyEnvelope(body) = None
         /\ r.capability = "video.generate" -> LongRunning(body)
      [] OTHER -> ParseGenResp(r, body)

Script(r, body) ==
    LET read == BuildResponse(r.plan, body)
    IN  IF read.refused THEN Fails("permanent")
        ELSE Succeeds(read.assets, read.text, read.task)

Reading(r, body) == CASE r.adapter = "openai" -> OpenAI(r, body)
                      [] r.adapter = "gemini" -> Gemini(r, body)
                      [] r.adapter = "script" -> Script(r, body)

(* The bodies an upstream may answer with, by what it does with the call.  *)
Executed(r) == IF r.adapter = "script" THEN Objects
               ELSE {"results", "nothing"}
Declined(r) == IF r.adapter = "script" THEN Objects
               ELSE {"blocked", "failed", "busy", "overloaded"}

-----------------------------------------------------------------------------
Init ==
    /\ request \in Requests
    /\ phase = "invoke" /\ attempt = 1 /\ try = 0
    /\ sent = {} /\ served = {} /\ kept = None /\ bills = 0
    /\ answer = None /\ class = None /\ result = None
    /\ canceled = FALSE

(* An attempt ends without a result. *)
Fail(c) == /\ phase' = "failed"
           /\ class' = ProviderError(c)
           /\ UNCHANGED <<request, attempt, try, result>>

(* Adapter.Invoke refuses the request, or passes it to the transport,      *)
(* which checks the address once for all its tries. A name that does not   *)
(* resolve is refused for good, as a blocked address is.                   *)
Invoke ==
    /\ phase = "invoke"
    /\ IF LocalRefusal(request) # None
       THEN Fail(LocalRefusal(request))
       ELSE \/ Fail("permanent")
            \/ /\ phase' = "send" /\ try' = 1 /\ class' = None
               /\ UNCHANGED <<request, attempt, result>>
    /\ UNCHANGED <<upstream, answer, canceled>>

\* Mutation: the request is built without the run's context.
SendAnyway ==
    /\ phase = "send"
    /\ sent' = sent \cup {[attempt |-> attempt, try |-> try,
                           key |-> Key(request, attempt)]}
    /\ phase' = "wait" /\ class' = None
    /\ answer' = None
    /\ UNCHANGED <<request, attempt, try, result, served, kept, bills, canceled>>

(* Transport.once: nothing is sent under a context that is done. *)
Send ==
    /\ phase = "send"
    /\ IF canceled
       THEN Fail("canceled") /\ UNCHANGED sent
       ELSE /\ sent' = sent \cup
                   {[attempt |-> attempt, try |-> try,
                     key |-> Key(request, attempt)]}
            /\ phase' = "wait" /\ class' = None
            /\ UNCHANGED <<request, attempt, try, result>>
    /\ answer' = None
    /\ UNCHANGED <<served, kept, bills, canceled>>

(* The transport's loop after a try that failed with c: another try after  *)
(* a pause, or the error is the call's. A Retry-After is waited for even   *)
(* after the last try.                                                     *)
Tried(c, after) ==
    IF Retryable(c) /\ ~Raw(request) /\ (try < MaxTries \/ after)
    THEN /\ phase' = "pause" /\ class' = c
         /\ UNCHANGED <<request, attempt, try, result>>
    ELSE Fail(c)

(* A pause ends by its timer or by the context. *)
Continue ==
    /\ phase = "pause"
    /\ \/ canceled /\ Fail("canceled")
       \/ IF try < MaxTries
          THEN /\ phase' = "send" /\ try' = try + 1
               /\ UNCHANGED <<request, attempt, class, result>>
          ELSE Fail(class)
    /\ UNCHANGED <<upstream, answer, canceled>>

(* The answer is read: a status of 400 or above by ClassifyHTTP, a body    *)
(* that does not decode as a failure of the network, any other body by     *)
(* the adapter, whose errors the transport no longer sees.                 *)
Read ==
    /\ phase = "wait" /\ answer # None
    /\ CASE answer.status # "good" ->
              \E after \in BOOLEAN :
                 Tried(ClassOfStatus(answer.status), after /\ ~Raw(request))
         [] answer.status = "good" /\ answer.garbled /\ ~Raw(request) ->
              Tried("transient", FALSE)
         [] OTHER ->
              LET read == Reading(request, answer.body)
              IN  IF read.class = "ok"
                  THEN /\ result' = read /\ class' = "ok" /\ phase' = "done"
                       /\ UNCHANGED <<request, attempt, try>>
                  ELSE Fail(read.class)
    /\ answer' = None
    /\ UNCHANGED <<upstream, canceled>>

(* The connection breaks: a failure of the network. *)
Break ==
    /\ phase = "wait"
    /\ Tried("transient", FALSE)
    /\ answer' = None
    /\ UNCHANGED <<upstream, canceled>>

(* The client's own limit of 120 s passes, or the context is done: both    *)
(* are errors of the kind ClassifyTransport calls canceled.                *)
GiveUp ==
    /\ phase = "wait"
    /\ Fail("canceled")
    /\ answer' = None
    /\ UNCHANGED <<upstream, canceled>>

(* runStep records the attempt and asks the retry policy. *)
Record ==
    /\ phase = "failed"
    /\ phase' = IF Retryable(class) /\ attempt < MaxAttempts
                THEN "backoff" ELSE "done"
    /\ UNCHANGED <<request, attempt, try, class, result, upstream, answer,
                   canceled>>

\* Mutation: the attempts are counted inside the loop.
AgainFromOne ==
    /\ phase = "backoff"
    /\ \/ canceled /\ phase' = "done" /\ class' = "canceled"
       \/ phase' = "invoke" /\ UNCHANGED class
    /\ try' = 0
    /\ UNCHANGED <<attempt, request, result, upstream, answer, canceled>>

(* The engine's pause ends by its timer or by the context. *)
Again ==
    /\ phase = "backoff"
    /\ \/ canceled /\ phase' = "done" /\ class' = "canceled"
          /\ UNCHANGED <<attempt, try>>
       \/ phase' = "invoke" /\ attempt' = attempt + 1 /\ try' = 0
          /\ UNCHANGED class
    /\ UNCHANGED <<request, result, upstream, answer, canceled>>

CancelRun ==
    /\ phase # "done" /\ ~canceled
    /\ canceled' = TRUE
    /\ UNCHANGED <<client, upstream, answer>>

-----------------------------------------------------------------------------
(* The upstream. *)

(* An answer reaches the client over the connection of the call it is to.  *)
Deliver(call, a) ==
    answer' = IF /\ phase = "wait" /\ answer = None
                 /\ call.attempt = attempt /\ call.try = try
              THEN a ELSE answer

Good(body, garbled) == [status |-> "good", body |-> body, garbled |-> garbled]
Bad(status) == [status |-> status, body |-> None, garbled |-> FALSE]

(* The call is executed and charged for, unless its key is known; what is  *)
(* delivered may be cut short, or be the error of a gateway on the way.    *)
Execute ==
    \E call \in sent \ served, body \in Executed(request) :
       LET known == HonoursKeys /\ call.key # None /\ kept # None
                    /\ kept.key = call.key
           text  == IF known THEN kept.body ELSE body
       IN  /\ known => body = kept.body
           /\ bills' = IF known THEN bills ELSE bills + 1
           /\ kept' = IF HonoursKeys /\ call.key # None
                      THEN [key |-> call.key, body |-> text] ELSE kept
           /\ served' = served \cup {call}
           /\ \/ \E garbled \in BOOLEAN : Deliver(call, Good(text, garbled))
              \/ \E status \in {"timeout", "down"} : Deliver(call, Bad(status))
           /\ UNCHANGED <<client, sent, canceled>>

(* The call is refused, with a status or inside a body. *)
Decline ==
    \E call \in sent \ served :
       /\ served' = served \cup {call}
       /\ \/ \E status \in Statuses : Deliver(call, Bad(status))
          \/ \E body \in Declined(request) : Deliver(call, Good(body, FALSE))
       /\ UNCHANGED <<client, sent, kept, bills, canceled>>

Client == \/ Invoke \/ Send \/ Continue \/ Read \/ Break \/ GiveUp
          \/ Record \/ Again

Next == Client \/ CancelRun \/ Execute \/ Decline

Spec == Init /\ [][Next]_vars

(* The engine's goroutine goes on, and an answer or the client's time      *)
(* limit ends every wait. Nothing is asked of the upstream or of the       *)
(* connection.                                                             *)
FairSpec ==
    /\ Spec
    /\ WF_vars(Invoke \/ Send \/ Continue \/ Record \/ Again)
    /\ WF_vars(Read \/ GiveUp)

-----------------------------------------------------------------------------
(* Types of the state of the engine, the adapters, the transport and the   *)
(* upstream.                                                               *)
TypeOK ==
    /\ request \in Requests
    /\ phase \in {"invoke", "send", "wait", "pause", "failed", "backoff", "done"}
    /\ attempt \in 1..MaxAttempts /\ try \in 0..MaxTries
    /\ served \subseteq sent
    /\ bills \in Nat /\ canceled \in BOOLEAN
    /\ class \in Classes \cup {"ok", None}
    /\ result # None <=> class = "ok"

(* idempotency.go:10-11: however often the engine and the transport retry  *)
(* a step, and whatever was lost on the way, an upstream that honours the  *)
(* idempotency key charges for it once.                                    *)
KeyedPaidOnce ==
    HonoursKeys /\ request.adapter = "openai" => bills <= 1

(* transport.go:69-87, engine.go:340-345: once the run is canceled, no try *)
(* of the transport and no attempt of the engine sends anything more, in   *)
(* whichever pause the cancellation finds them.                            *)
CanceledSendsNothing == [][canceled => sent' = sent]_vars

(* script.go:453-535: a scripted step that succeeds has something to show: *)
(* an asset, a text, or a remote task to ask about.                        *)
ScriptedHasResult ==
    request.adapter = "script" /\ class = "ok" =>
       result.assets > 0 \/ result.text \/ result.task

(* What a step can cost when the upstream keeps no keys (engine.go:307,    *)
(* transport.go:61): a charge for each try of each attempt, and no more.   *)
BoundedCost == bills <= MaxAttempts * MaxTries

(* Every step ends, although the engine and the transport retry inside     *)
(* each other and the upstream may never answer.                           *)
StepEnds == <>(phase = "done")

-----------------------------------------------------------------------------
(* Further claims of comments and documents, which the code does not keep; *)
(* the README says how each fails.                                         *)

(* idempotency.go:10-11, for every adapter. *)
ChargedOnce == HonoursKeys => bills <= 1

(* docs/design/05-execution-engine.md:80: a timeout is retried. *)
TimeoutsAreRetried == [][phase = "wait" /\ phase' = "failed" /\ class' = "canceled"
                         => canceled]_vars

(* A step that succeeds has a result, whatever the adapter. *)
SucceedsWithResult ==
    class = "ok" => result.assets > 0 \/ result.text \/ result.task

(* A step that succeeds was executed. *)
SucceedsExecuted == class = "ok" => bills > 0

=============================================================================
