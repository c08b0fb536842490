------------------------------ MODULE MCSession ------------------------------
(***************************************************************************)
(* A session of the GUI, in which the user works in the Classify tab or    *)
(* watches the Overall tab.  The two share no state.                       *)
(***************************************************************************)
EXTENDS ConfigEditor, Sampler

CONSTANTS m1, m2, file1
VARIABLE tab

-----------------------------------------------------------------------------
TwoModels == {m1, m2}
OneFile == {file1}

On(freqs, up) == [freq |-> [c \in Cpus |-> freqs[c + 1]], online |-> up]

TwoTiers  == On(<<2, 1, 2>>, Cpus)
NoPolicy  == On(<<0, 0, 0>>, {0, 2})
ThreeTiers == On(<<1, 3, 2>>, Cpus)
Begin(m, config, user, others) ==
  [machine |-> m, clusters |-> (m1 :> 1) @@ (m2 :> 2), disk |-> file1 :> config,
   user |-> user, others |-> others]

(* a file with an entry that lacks fields and has a slice below the floor,  *)
(* and one whose default is bound to a kind that few machines have          *)
Sparse == [clusters |-> 0 :> [prio |-> 0, slice |-> 0, kind |-> 1],
           default |-> NoEntry]
Wide   == [clusters |-> (0 :> [kind |-> 2, prefer |-> 7]) @@ (1 :> [prio |-> 5]),
           default |-> [kind |-> 3, slice |-> 2]]
SomeConfigs == {Sparse, Wide}

(* and every machine, with nobody at work *)
SomeSessions ==
  {Begin(TwoTiers, Sparse, 4, 0), Begin(TwoTiers, Wide, 3, 1),
   Begin(ThreeTiers, Wide, 3, 1), Begin(NoPolicy, None, 3, 1)}
  \cup {Begin(m, None, 0, 0) : m \in Machine(0 .. 3)}

SomeEdits == {[field |-> "prio", value |-> 0], [field |-> "kind", value |-> 0],
              [field |-> "kind", value |-> 2]}

Bounds(n, hotplugs, tids, uses, odd, vm) ==
  [jiffies |-> n, plugs |-> hotplugs, tids |-> tids, lives |-> uses, odd |-> odd, vm |-> vm]
(* CPUs come and go, and a thread may be a guest's; threads that use a tid   *)
(* one after another; two tids                                              *)
ThreeWorlds == {Bounds(3, 2, {1}, 1, FALSE, TRUE), Bounds(3, 0, {1}, 3, TRUE, FALSE),
                Bounds(2, 0, {1, 2}, 1, TRUE, FALSE)}

-----------------------------------------------------------------------------
(* The tab that is not used is in one of its initial states. *)
SessionInit ==
  /\ Init /\ OverallInit /\ tab \in {"classify", "overall"}
  /\ tab = "classify" => world = CHOOSE w \in Worlds : TRUE
  /\ tab = "classify" => alive = {}
  /\ tab = "overall" =>
       left = [user |-> 0, others |-> 0] /\ groups = Groups(NoPolicy) /\ ed["classify"].model = m1

SessionNext ==
  \/ tab = "classify" /\ Next /\ UNCHANGED <<overallVars, tab>>
  \/ tab = "overall" /\ OverallNext /\ UNCHANGED <<vars, tab>>

SessionSpec == SessionInit /\ [][SessionNext]_<<vars, overallVars, tab>>
=============================================================================
