-------------------------- MODULE StorageConstants --------------------------
(***************************************************************************)
(* The parameters of the disk cache (DiskCache), the cluster chains of a   *)
(* volume (ClusterChain) and the tree of open files (Instances).           *)
(***************************************************************************)
EXTENDS Integers, FiniteSets, Sequences

\* the disk cache
CONSTANTS
  Clients,    \* threads that use the disk
  Slots,      \* slots of the disk cache
  DiskPages,  \* groups of sectors that one slot holds
  Sectors,    \* sectors of such a group (8 in the code)
  Values,     \* what is written into a sector
  MaxFaults,  \* bound on failing disk operations
  MaxCalls,   \* bound on the calls of get()
  NULL

\* the cluster chains
CONSTANTS
  Files,       \* files that a worker is busy with; each has its own chain
  Layout,      \* the clusters of each file when the volume is mounted
  Linear,      \* files whose chain is not kept in the FAT (alloc_stat & 2)
  Clusters,    \* cluster_count
  PerSector,   \* bits, and entries of the FAT, that a sector holds
  Lines,       \* cluster_chain::limit
  MaxIndex,    \* bound on the clusters that each file is asked for
  MaxFailures    \* bound on failing reads of the disk

\* the tree of open files
CONSTANTS
  Node,        \* folders and files of the volume
  Parent,      \* the folder that holds the record of a node; Nil for the root
  Folder,      \* the nodes that are folders
  Root, Nil,
  Dot, Up,     \* the names "." and ".."
  Openers,     \* threads
  Paths,       \* the paths they open, sequences of names
  MaxOpen      \* bound on the file objects of a node

ASSUME StorageAssumption ==
  /\ Slots \in Nat \ {0} /\ Sectors \in Nat \ {0}
  /\ MaxFaults \in Nat /\ MaxCalls \in Nat
  /\ NULL \notin DiskPages

Cluster == 2..Clusters + 1
Laid(f) == {Layout[f][i] : i \in 1..Len(Layout[f])}

ASSUME ChainAssumption ==
  /\ Clusters \in Nat \ {0} /\ PerSector \in Nat \ {0}
  /\ Lines \in Nat \ {0} /\ MaxIndex \in [Files -> Nat] /\ MaxFailures \in Nat
  /\ Linear \subseteq Files /\ 0 \notin Files
  /\ Layout \in [Files -> Seq(Cluster)]
  /\ \A f, g \in Files : f # g => Laid(f) \cap Laid(g) = {}
  /\ \A f \in Files : Cardinality(Laid(f)) = Len(Layout[f])
  /\ \A f \in Linear : \A i \in 1..Len(Layout[f]) :
       Layout[f][i] = Layout[f][1] + i - 1

ASSUME TreeAssumption ==
  /\ Root \in Folder /\ Folder \subseteq Node
  /\ Nil \notin Node /\ {Dot, Up} \cap Node = {}
  /\ Parent \in [Node -> Folder \cup {Nil}]
  /\ \A n \in Node : Parent[n] = Nil <=> n = Root
  /\ Paths \subseteq Seq(Node \cup {Dot, Up})
  /\ MaxOpen \in Nat
  /\ IsFiniteSet(Node) /\ IsFiniteSet(Openers) /\ Nil \notin Openers
=============================================================================
