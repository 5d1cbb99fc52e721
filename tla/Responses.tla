------------------------------ MODULE Responses ------------------------------
(***************************************************************************)
(* ddi::ResponseBuilder and ddi::ConfigResponseBuilder, and the documents  *)
(* the client makes of what they build: the feedback of an action and the  *)
(* configuration data.  A handler may keep a builder, go on calling it and *)
(* build again; a response it has returned is no longer the builder's.     *)
(*                                                                         *)
(* A handler makes at most MaxCalls calls.                                 *)
(***************************************************************************)
EXTENDS Integers, SequencesExt, NamedValues

CONSTANTS Details, Keys, DataValues, ActionIds, MaxCalls

ASSUME MaxCallsAssumption == MaxCalls \in Nat

VARIABLES builder,        \* fields of the ResponseBuilderImpl
          configBuilder,  \* of the ConfigResponseBuilderImpl
          calls,          \* history: the calls made so far
          built,          \* the response the client holds, or NoBuilt
          builtAfter,     \* history: so many calls were made when it was built
          document        \* what the client sends of it

responseVars == << builder, configBuilder, calls, built, builtAfter, document >>

Finished == {"success", "failure", "none"}
Execution ==
  {"closed", "proceeding", "canceled", "scheduled", "rejected", "resumed", "download", "downloaded"}
Modes == {"merge", "replace", "remove"}

NoBuilt == [of |-> "nothing"]
NoDocument == [sent |-> "nothing"]

\* What a builder, and the response it builds, are made of.  newInstance() sets the result;
\* the execution is that of value-initialization.
NewBuilder ==
  [of |-> "response", finished |-> "none", execution |-> "closed", details |-> << >>,
   listener |-> "none", ignoreSleep |-> FALSE]
NewConfigBuilder == [of |-> "config", data |-> {}, mode |-> "merge", ignoreSleep |-> FALSE]

ResponsesInit ==
  /\ builder = NewBuilder /\ configBuilder = NewConfigBuilder
  /\ calls = << >> /\ built = NoBuilt /\ builtAfter = 0 /\ document = NoDocument

Called(name, argument) ==
  /\ Len(calls) < MaxCalls
  /\ calls' = Append(calls, << name, argument >>)
  /\ UNCHANGED << built, builtAfter, document >>

--------------------------------------------------------------------------------
SetFinished(f) ==
  /\ Called("finished", f)
  /\ builder' = [builder EXCEPT !.finished = f] /\ UNCHANGED configBuilder

SetExecution(e) ==
  /\ Called("execution", e)
  /\ builder' = [builder EXCEPT !.execution = e] /\ UNCHANGED configBuilder

SetResponseDeliveryListener ==
  /\ Called("listener", "own")
  /\ builder' = [builder EXCEPT !.listener = "own"] /\ UNCHANGED configBuilder

AddDetail(d) ==
  /\ Called("detail", d)
  /\ builder' = [builder EXCEPT !.details = Append(@, d)] /\ UNCHANGED configBuilder

\* addData() inserts into a map: a key that is there keeps its value.
AddData(k, v) ==
  /\ Called("data", << k, v >>)
  /\ configBuilder' =
       [configBuilder EXCEPT !.data = IF \E d \in @ : d[1] = k THEN @ ELSE @ \cup {<< k, v >>}]
  /\ UNCHANGED builder

SetMode(m) ==
  /\ Called("mode", m)
  /\ configBuilder' = [configBuilder EXCEPT !.mode = m] /\ UNCHANGED builder

\* setIgnoreSleep(), of either.
SetIgnoreSleep ==
  /\ Called("ignoreSleep", "response")
  /\ builder' = [builder EXCEPT !.ignoreSleep = TRUE] /\ UNCHANGED configBuilder
SetConfigIgnoreSleep ==
  /\ Called("ignoreSleep", "config")
  /\ configBuilder' = [configBuilder EXCEPT !.ignoreSleep = TRUE] /\ UNCHANGED builder

BuilderEmptied(b) == [b EXCEPT !.details = << >>]    \* mutant: build() moves the details out
BuilderAfterBuild(b) == b

\* build(), and the return to the client: before that the handler may call the builder again.
BuildResponse ==
  /\ built' = builder /\ builder' = BuilderAfterBuild(builder)
  /\ builtAfter' = Len(calls) /\ document' = NoDocument
  /\ UNCHANGED << configBuilder, calls >>

BuildConfigResponse ==
  /\ built' = configBuilder
  /\ builtAfter' = Len(calls) /\ document' = NoDocument
  /\ UNCHANGED << builder, configBuilder, calls >>

--------------------------------------------------------------------------------
\* fillResponseDocument(): an id below zero is left out, the document then has no "id".
Status(r, id) == [finished |-> r.finished, execution |-> r.execution, details |-> r.details, id |-> id]

SendFeedback ==
  /\ built.of = "response" /\ document = NoDocument
  /\ \E id \in ActionIds :
       document' = [sent |-> "feedback", status |-> Status(built, IF id >= 0 THEN << id >> ELSE << >>),
                    listener |-> built.listener]
  /\ UNCHANGED << builder, configBuilder, calls, built, builtAfter >>

\* followConfigData(): nothing is sent when there is no data; the status is always the same.
SendConfigData ==
  /\ built.of = "config" /\ built.data # {} /\ document = NoDocument
  /\ document' = [sent |-> "config", data |-> built.data, mode |-> built.mode,
                  status |-> Status([finished |-> "success", execution |-> "closed", details |-> << >>], << >>)]
  /\ UNCHANGED << builder, configBuilder, calls, built, builtAfter >>

\* A handler that returns no response: wrong_response.
SendNothing ==
  /\ built = NoBuilt /\ document = NoDocument
  /\ document' = [sent |-> "wrong_response"]
  /\ UNCHANGED << builder, configBuilder, calls, built, builtAfter >>

ResponseBuilder ==
  \/ \E f \in Finished : SetFinished(f)
  \/ \E e \in Execution : SetExecution(e)
  \/ \E d \in Details : AddDetail(d)
  \/ SetResponseDeliveryListener \/ SetIgnoreSleep \/ BuildResponse

ConfigResponseBuilder ==
  \/ \E k \in Keys, v \in DataValues : AddData(k, v)
  \/ \E m \in Modes : SetMode(m)
  \/ SetConfigIgnoreSleep \/ BuildConfigResponse

ResponsesNext ==
  \/ ResponseBuilder \/ ConfigResponseBuilder
  \/ SendFeedback \/ SendConfigData \/ SendNothing
ResponsesSpec == ResponsesInit /\ [][ResponsesNext]_responseVars

--------------------------------------------------------------------------------
\* The arguments of the calls with a name, up to the one the response was built after.
Given(name) == Named(SubSeq(calls, 1, builtAfter), name)
LastGiven(name, default) == IF Given(name) = << >> THEN default ELSE Last(Given(name))

\* What hawkBit is told is what the handler had set when it built the response, whatever it
\* built before or does with the builder until the document is sent: the last result and
\* execution, every detail in order, and for each key of the configuration the first value;
\* and the listener that was set is the one that hears of the delivery.
DocumentSaysWhatWasSet ==
  /\ document.sent = "feedback" =>
       /\ document.status.finished = LastGiven("finished", "none")
       /\ document.status.execution = LastGiven("execution", "closed")
       /\ document.status.details = Given("detail")
       /\ document.listener = LastGiven("listener", "none")
  /\ document.sent = "config" =>
       /\ document.mode = LastGiven("mode", "merge")
       /\ document.data =
            {Given("data")[i] : i \in {i \in DOMAIN Given("data") :
                                        \A j \in 1..(i - 1) : Given("data")[j][1] # Given("data")[i][1]}}

================================================================================
