----------------------------- MODULE MCServices -----------------------------
(* The life of a service: start and stop of its program with the profiler, *)
(* and its registration and discovery; `part' says which one a behaviour   *)
(* is of, and the fairness conditions are those of the component.          *)
(*                                                                         *)
(* app: two servers and a resource, each with a close function that may    *)
(*   fail, three signals and two sessions of the profiler;                 *)
(* etcd: one registration, two attempts per recovery, three faults;        *)
(* nacos: four changes of the instances.                                   *)
EXTENDS AppLifecycle, EtcdRegistry, NacosWatcher

CONSTANT Parts
VARIABLE part

MCCloses == <<"s1", "s2", "resource">>

servicesVars == <<part, appVars, etcdVars, nacosVars>>

ServicesInit == part \in Parts /\ AppInit /\ EtcdInit /\ NacosInit

ServicesNext ==
  \/ part = "app"   /\ AppNext   /\ UNCHANGED <<part, etcdVars, nacosVars>>
  \/ part = "etcd"  /\ EtcdNext  /\ UNCHANGED <<part, appVars, nacosVars>>
  \/ part = "nacos" /\ NacosNext /\ UNCHANGED <<part, appVars, etcdVars>>

ServicesSpec ==
  /\ ServicesInit /\ [][ServicesNext]_servicesVars
  /\ \A s \in Servers : WF_appVars(part = "app" /\ ServerReturns(s))
  /\ WF_appVars(part = "app" /\ (WatchCtx \/ WatchTerm))
  /\ WF_appVars(part = "app" /\ WatchTrap)
  /\ WF_appVars(part = "app" /\ (CloseNext \/ CloseFails \/ StopDone))
  /\ WF_appVars(part = "app" /\ RunReturns)
  /\ WF_appVars(part = "app" /\ ProfSignal)
  /\ \A t \in Timers : WF_appVars(part = "app" /\ ProfTimer(t))
  /\ \A h \in Beats : /\ WF_etcdVars(part = "etcd" /\ Beating(h))
                      /\ WF_etcdVars(part = "etcd" /\ LoseChannel(h))
  /\ \A l \in Leases : WF_etcdVars(part = "etcd" /\ Expire(l))
  /\ WF_etcdVars(part = "etcd" /\ (NextEvent \/ NextGet))
  /\ WF_nacosVars(part = "nacos" /\ Callback)
  /\ WF_nacosVars(part = "nacos" /\ NextStep)
  /\ WF_nacosVars(part = "nacos" /\ StopUnsubscribe)
=============================================================================
