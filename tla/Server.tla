-------------------------------- MODULE Server --------------------------------
(***************************************************************************)
(* The operator process (pkg/cmd): it checks its options, makes the         *)
(* clients, the informer factories and the controllers, starts the          *)
(* informers, waits for their caches, and runs the controllers until the    *)
(* context is cancelled.  Any of it may be cut short by a crash, after      *)
(* which the process is started again with the same options.               *)
(***************************************************************************)
EXTENDS BaseController, Integers

CONSTANT Options  \* the flags and environments the process may be started with

\* An empty namespace is one that was not given; kubeconfig says whether the
\* API server's address and credentials can be loaded.
OptionType == [namespace : {"", "dmaas"}, openebs : {"", "openebs", "dmaas"},
               velero : {"", "velero", "dmaas"}, qps : Int, burst : Int,
               kubeconfig : BOOLEAN]

ASSUME OptionsAssumption == Options \subseteq OptionType

NoLimit == [qps |-> 0, burst |-> 0]

VARIABLES
  phase,    \* how far the process is
  opts,     \* config and serverOpts
  limits    \* the rate limits of the clients

serverVars == <<phase, opts, limits>>
allVars == <<vars, serverVars>>

Phase == {"start", "validated", "clients", "registered", "started", "ownSynced",
          "serving", "exited"}

ServerInit ==
  /\ Init
  /\ phase = "start" /\ opts \in Options /\ limits = NoLimit

\* CheckError ends the process on an error.
Exit ==
  /\ phase' = "exited" /\ limits' = NoLimit /\ Forgets
  /\ UNCHANGED <<hist, read, faults, opts>>

-----------------------------------------------------------------------------
\* Seeded fault: no default for Velero's namespace.
DefaultedButVelero(o) ==
  [o EXCEPT !.openebs = IF @ = "" THEN o.namespace ELSE @]

Defaulted(o) ==
  [o EXCEPT !.openebs = IF @ = "" THEN o.namespace ELSE @,
            !.velero  = IF @ = "" THEN o.namespace ELSE @]

ValidateConfig ==
  /\ phase = "start"
  /\ opts.namespace # ""
  /\ phase' = "validated" /\ opts' = Defaulted(opts)
  /\ UNCHANGED <<vars, limits>>

ConfigInvalid == phase = "start" /\ opts.namespace = "" /\ Exit

\* SetClientQPS and SetClientBurst.  A rate of 0 is let through.
LimitsAccepted(o) == o.qps >= 0 /\ o.burst > 0

\* ClientConfig keeps the library's value where none was set.
ClientConfig(o) ==
  [qps   |-> IF o.qps > 0 THEN o.qps ELSE 0,
   burst |-> IF o.burst > 0 THEN o.burst ELSE 0]

\* NewForConfig makes a rate limiter when there is a rate, and wants a burst then.
NewForConfigFails(cfg) == cfg.qps > 0 /\ cfg.burst <= 0

ClientsMade == LimitsAccepted(opts) /\ opts.kubeconfig /\ ~NewForConfigFails(ClientConfig(opts))

NewServer ==
  /\ phase = "validated" /\ ClientsMade
  /\ phase' = "clients" /\ limits' = ClientConfig(opts)
  /\ UNCHANGED <<vars, opts>>

NewServerFails == phase = "validated" /\ ~ClientsMade /\ Exit

-----------------------------------------------------------------------------
\* Informer() and Lister() request an informer of their factory once; Start
\* runs the informers that are requested by then.
Requested(I) == informer' = [i \in Informer |-> IF i \in I THEN "requested" ELSE informer[i]]

\* The informers NewDMaaSBackupper takes listers of.
BackupperInformers == VeleroInformer

GetSupportedControllers ==
  /\ phase = "clients"
  /\ Requested((UNION {New(c).informers : c \in Controllers}) \union BackupperInformers)
  /\ phase' = "registered"
  /\ UNCHANGED <<hist, read, cached, pending, wq, runVars, worker, shouldRequeue, faults,
                 opts, limits>>

\* Start of both factories.
StartInformers ==
  /\ phase = "registered"
  /\ informer' = [i \in Informer |-> IF informer[i] = "requested" THEN "running" ELSE informer[i]]
  /\ phase' = "started"
  /\ UNCHANGED <<hist, read, cached, pending, wq, runVars, worker, shouldRequeue, faults,
                 opts, limits>>

\* WaitForCacheSync of a factory looks at the informers that were started.
Synced(I) == \A i \in I : informer[i] # "running"

\* When the context is done first, WaitForCacheSync says no.
Waits(from, to, I) ==
  /\ phase = from
  /\ \/ Synced(I) /\ phase' = to /\ UNCHANGED <<vars, opts, limits>>
     \/ ~Synced(I) /\ cancelled /\ Exit

WaitForOwnCaches == Waits("started", "ownSynced", Controllers)

\* Seeded fault: Velero's caches are not waited for.
WaitForNoVeleroCaches == Waits("ownSynced", "serving", {})

WaitForVeleroCaches == Waits("ownSynced", "serving", VeleroInformer)

\* A goroutine per controller; the errors of Run are dropped.
StartController(c) == phase = "serving" /\ Run(c) /\ UNCHANGED serverVars

ServerStops ==
  /\ phase = "serving" /\ cancelled
  /\ \A c \in Controllers : run[c] \in {"stopped", "failed"}
  /\ Exit

\* The context is made by newServer.
CancelContext ==
  /\ phase \notin {"start", "validated", "exited"}
  /\ Cancel /\ UNCHANGED serverVars

\* The process dies, and Kubernetes starts the container again.
ProcessDies ==
  /\ phase \notin {"start", "exited"}
  /\ faults < MaxFaults /\ faults' = faults + 1
  /\ phase' = "start" /\ limits' = NoLimit /\ Forgets
  /\ UNCHANGED <<hist, read, opts>>

-----------------------------------------------------------------------------
StartUp ==
  \/ ValidateConfig \/ ConfigInvalid \/ NewServer \/ NewServerFails
  \/ GetSupportedControllers \/ StartInformers \/ WaitForOwnCaches \/ WaitForVeleroCaches

BaseStep ==
  \/ \E k \in Key : Change(k)
  \/ InformerStep
  \/ \E c \in Controllers : RunStep(c)
  \/ \E w \in Worker : WorkerStep(w)

ServerNext ==
  \/ StartUp
  \/ \E c \in Controllers : StartController(c)
  \/ BaseStep /\ UNCHANGED serverVars
  \/ ServerStops \/ CancelContext \/ ProcessDies

ServerSpec == ServerInit /\ [][ServerNext]_allVars
=============================================================================
