----------------------------- MODULE MCClients -----------------------------
(* The clients of remote servers; `part' says which one a behaviour is of, *)
(* and the fairness conditions are those of the component.                 *)
(*                                                                         *)
(* resend: three events and connections that break twice, pages of one     *)
(*   event, so that resending takes several pages;                         *)
(* sse: two loops, the five retries and the interval and ceiling of the    *)
(*   code, errors of either text;                                          *)
(* ws: the ping loop and an application that reconnects too, two breaks    *)
(*   and two calls that nothing calls for.                                 *)
EXTENDS SSEResend, SSEClient, WSClient

CONSTANTS Parts, l1, l2
VARIABLE part

TwoLoops == {l1, l2}

clientsVars == <<part, resendVars, clientVars, wsVars>>

ClientsInit == part \in Parts /\ ResendInit /\ ClientInit /\ WSInit

ClientsNext ==
  \/ part = "resend" /\ ResendNext /\ UNCHANGED <<part, clientVars, wsVars>>
  \/ part = "sse"    /\ ClientNext /\ UNCHANGED <<part, resendVars, wsVars>>
  \/ part = "ws"     /\ WSNext     /\ UNCHANGED <<part, resendVars, clientVars>>

ClientsSpec ==
  /\ ClientsInit /\ [][ClientsNext]_clientsVars
  /\ WF_resendVars(part = "resend" /\ PushSaved) /\ WF_resendVars(part = "resend" /\ LatePush)
  /\ WF_resendVars(part = "resend" /\ HubTake) /\ WF_resendVars(part = "resend" /\ Connect)
  /\ WF_resendVars(part = "resend" /\ Receive) /\ WF_resendVars(part = "resend" /\ SetClient)
  /\ WF_resendVars(part = "resend" /\ (Resend \/ ListFails \/ StartStream \/ Stream \/ Unregister))
  /\ \A l \in Loops :
       /\ WF_clientVars(part = "sse" /\ (Start(l) \/ DialRefused(l) \/ DialAnswered(l)))
       /\ WF_clientVars(part = "sse" /\ Retry(l))
       /\ WF_clientVars(part = "sse" /\ Select(l)) /\ WF_clientVars(part = "sse" /\ Wake(l))
  /\ \A a \in Reconnectors :
       /\ WF_wsVars(part = "ws" /\ Reconnect(a))
       /\ SF_wsVars(part = "ws" /\ DialDone(a))
       /\ SF_wsVars(part = "ws" /\ Backoff(a) /\ actor'[a].at = "off")
  /\ WF_wsVars(part = "ws" /\ CloseConn)
=============================================================================
