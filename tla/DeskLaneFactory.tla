-------------------------- MODULE DeskLaneFactory --------------------------
(***************************************************************************)
(* The factory (DeskLaneFactory.sol) for one kind: whose lanes it deploys, *)
(* which it lists, and the timelock on the code behind a predicted lane    *)
(* address. Of the caps only how loose they are matters here: a number     *)
(* compared with the factory's ceiling and with the implementation's copy. *)
(***************************************************************************)
EXTENDS Integers, Sequences

CONSTANTS
  Account, Admin,
  Impl, NoImpl,        \* implementations, and address(0)
  Unregistered,        \* the kind never had an implementation
  Undeployed,          \* no code at an address yet
  Looseness,           \* of caps and ceilings
  Params,              \* what createLane may be asked for
  ImplDelay,               \* IMPLEMENTATION_DELAY
  MaxFactoryTime

ASSUME FactoryAssumption ==
  /\ Admin \in Account
  /\ NoImpl \notin Impl /\ Unregistered \notin Impl \cup {NoImpl}
  /\ Looseness \subseteq Nat /\ Undeployed \notin Nat
  /\ Params \subseteq [owner : Account, caps : Looseness]
  /\ ImplDelay \in Nat \ {0} /\ MaxFactoryTime \in Nat

VARIABLES
  admin, pendingAdmin,
  implementation, registered,         \* implementations[kind], kindRegistered[kind]
  pendingImpl, implEta,
  poolAllowed,
  ceiling,                            \* the factory's, factoryNow
  copied,                             \* the ceiling each deployed implementation copied
  isLane, listed, lanesOf,
  factoryNow

adminVars == <<admin, pendingAdmin>>
implVars == <<implementation, registered, pendingImpl, implEta>>
listVars == <<isLane, listed, lanesOf>>
factoryVars == <<adminVars, implVars, poolAllowed, ceiling, copied, listVars, factoryNow>>

\* The address createLane deploys to.
Lane == Impl \X Params

Deployed == {i \in Impl : copied[i] # Undeployed}

FactoryTypeOK ==
  /\ admin \in Account /\ pendingAdmin \subseteq Account
  /\ implementation \in Impl \cup {NoImpl} /\ registered \in BOOLEAN
  /\ pendingImpl \in Impl \cup {NoImpl} /\ implEta \in Nat
  /\ poolAllowed \in BOOLEAN /\ ceiling \in Looseness
  /\ copied \in [Impl -> Looseness \cup {Undeployed}]
  /\ isLane \subseteq Lane /\ listed \subseteq Lane
  /\ lanesOf \in [Account -> Seq(Lane)]
  /\ factoryNow \in Nat

FactoryInit ==
  /\ admin = Admin /\ pendingAdmin = {}
  /\ implementation = NoImpl /\ registered = FALSE
  /\ pendingImpl = NoImpl /\ implEta = 0
  /\ poolAllowed = FALSE /\ ceiling \in Looseness
  /\ copied = [i \in Impl |-> Undeployed]
  /\ isLane = {} /\ listed = {} /\ lanesOf = [a \in Account |-> <<>>]
  /\ factoryNow = 0

-----------------------------------------------------------------------------
\* MUTANT of Creatable: a lane that exists is refused, whoever asks.
CreatableOnce(s, p) ==
  /\ implementation # NoImpl /\ poolAllowed /\ p.caps <= ceiling
  /\ <<implementation, p>> \notin isLane /\ p.caps <= copied[implementation]

\* What createLane refuses: an unknown kind, a pool that is not allowed, caps above the
\* ceiling. A lane that exists is only for its owner to list, once; a new one has its
\* caps checked again, by initialize, against what the implementation copied.
Creatable(s, p) ==
  /\ implementation # NoImpl /\ poolAllowed /\ p.caps <= ceiling
  /\ IF <<implementation, p>> \in isLane
     THEN s = p.owner /\ <<implementation, p>> \notin listed
     ELSE p.caps <= copied[implementation]

\* createLane: anyone deploys, only the owner lists.
CreateLane(s, p) ==
  LET lane == <<implementation, p>> IN
  /\ Creatable(s, p)
  /\ isLane' = isLane \cup {lane}
  /\ IF s = p.owner
     THEN listed' = listed \cup {lane} /\ lanesOf' = [lanesOf EXCEPT ![s] = Append(@, lane)]
     ELSE UNCHANGED <<listed, lanesOf>>
  /\ UNCHANGED <<adminVars, implVars, poolAllowed, ceiling, copied, factoryNow>>

\* The constructor of an implementation copies the ceiling of the moment.
DeployImplementation(i) ==
  /\ copied[i] = Undeployed
  /\ copied' = [copied EXCEPT ![i] = ceiling]
  /\ UNCHANGED <<adminVars, implVars, poolAllowed, ceiling, listVars, factoryNow>>

\* MUTANT of SetImplementation: disabling the kind forgets that it was registered.
SetImplementationForgets(s, i) ==
  /\ s = admin /\ i \in Deployed \cup {NoImpl}
  /\ IF i \in {NoImpl, implementation} \/ ~registered
     THEN /\ implementation' = i /\ registered' = (i # NoImpl)
          /\ pendingImpl' = NoImpl /\ implEta' = 0
     ELSE /\ pendingImpl' = i /\ implEta' = factoryNow + ImplDelay
          /\ UNCHANGED <<implementation, registered>>
  /\ UNCHANGED <<adminVars, poolAllowed, ceiling, copied, listVars, factoryNow>>

\* Disabling, re-affirming and the first registration act factoryNow, and drop what is
\* pending; anything else waits.
SetImplementation(s, i) ==
  /\ s = admin /\ i \in Deployed \cup {NoImpl}
  /\ IF i \in {NoImpl, implementation} \/ ~registered
     THEN /\ implementation' = i /\ registered' = (registered \/ i # NoImpl)
          /\ pendingImpl' = NoImpl /\ implEta' = 0
     ELSE /\ pendingImpl' = i /\ implEta' = factoryNow + ImplDelay
          /\ UNCHANGED <<implementation, registered>>
  /\ UNCHANGED <<adminVars, poolAllowed, ceiling, copied, listVars, factoryNow>>

ApplyImplementation(s) ==
  /\ s = admin /\ pendingImpl # NoImpl /\ factoryNow >= implEta
  /\ implementation' = pendingImpl /\ registered' = TRUE
  /\ pendingImpl' = NoImpl /\ implEta' = 0
  /\ UNCHANGED <<adminVars, poolAllowed, ceiling, copied, listVars, factoryNow>>

SetPoolAllowed(s, allowed) ==
  /\ s = admin
  /\ poolAllowed' = allowed
  /\ UNCHANGED <<adminVars, implVars, ceiling, copied, listVars, factoryNow>>

SetCeilings(s, c) ==
  /\ s = admin
  /\ ceiling' = c
  /\ UNCHANGED <<adminVars, implVars, poolAllowed, copied, listVars, factoryNow>>

\* pendingAdmin is address(0) or one address: a set of at most one.
ProposeAdmin(s, pending) ==
  /\ s = admin
  /\ pendingAdmin' = pending
  /\ UNCHANGED <<admin, implVars, poolAllowed, ceiling, copied, listVars, factoryNow>>

AcceptAdmin(s) ==
  /\ s \in pendingAdmin
  /\ admin' = s /\ pendingAdmin' = {}
  /\ UNCHANGED <<implVars, poolAllowed, ceiling, copied, listVars, factoryNow>>

FactoryTick ==
  /\ factoryNow < MaxFactoryTime
  /\ factoryNow' = factoryNow + 1
  /\ UNCHANGED <<adminVars, implVars, poolAllowed, ceiling, copied, listVars>>

FactoryNext ==
  \/ \E s \in Account :
       \/ \E p \in Params : CreateLane(s, p)
       \/ \E i \in Impl \cup {NoImpl} : SetImplementation(s, i)
       \/ ApplyImplementation(s)
       \/ \E allowed \in BOOLEAN : SetPoolAllowed(s, allowed)
       \/ \E c \in Looseness : SetCeilings(s, c)
       \/ \E pending \in {{}} \cup {{a} : a \in Account} : ProposeAdmin(s, pending)
       \/ AcceptAdmin(s)
  \/ \E i \in Impl : DeployImplementation(i)
  \/ FactoryTick

FactorySpec == FactoryInit /\ [][FactoryNext]_factoryVars

-----------------------------------------------------------------------------
\* A lane someone else deployed in the owner's name never keeps the owner from listing
\* it: createLane with the same params stays possible while the factory still takes them.
OwnerCanList ==
  \A l \in isLane \ listed :
    l[1] = implementation /\ poolAllowed /\ l[2].caps <= ceiling
      => ENABLED (CreateLane(l[2].owner, l[2]) /\ l \in listed')

\* The code behind a predicted address changes only a full delay after it was proposed;
\* at once it can only be registered for the first time or disabled (setImplementation).
AtOnce(v, w) == v = NoImpl \/ v = w \/ w = Unregistered
ImplementationLock == INSTANCE Timelock WITH
  Value <- Impl \cup {NoImpl, Unregistered}, Nothing <- NoImpl, Tighter <- AtOnce,
  value <- IF registered THEN implementation ELSE Unregistered,
  proposal <- pendingImpl, ripeAt <- implEta, Delay <- ImplDelay, now <- factoryNow
ImplementationTimelocked == ImplementationLock!Spec
=============================================================================
