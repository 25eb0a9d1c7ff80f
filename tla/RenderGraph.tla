------------------------------ MODULE RenderGraph ------------------------------
(***************************************************************************)
(* vk::RenderGraph (engine/sources/vulkan/render_graph.cc): passes declare *)
(* what they read and write, each write giving the resource a new handle;  *)
(* compile() orders the passes the target depends on and places the image  *)
(* layout transitions; execute() records the passes one by one, each       *)
(* waiting for the events of what it reads and setting those of what it    *)
(* wrote.  A graph is built, compiled, executed once and dropped.          *)
(*                                                                         *)
(* Stage and access masks are not modelled: a wait orders the whole pass.  *)
(***************************************************************************)
EXTENDS Naturals, FiniteSetsExt, SequencesExt

CONSTANTS
  Plans,        (* what is built, per plan: the sequence of its physical
                   resources, and that of the sets of passes one of which
                   is added next                                           *)
  Images        (* the physical resources that are images, not buffers     *)

VARIABLES
  plan,
  m_resources,  (* the handles: [physical, producer], producer 0 for an
                   imported or uninitialised resource                      *)
  id,           (* the caller's latest handle of each physical resource    *)
  m_passes,     (* [kind, reads, writes]; a read is [id, flag]             *)
  m_pass_order,
  transitions,  (* m_transitions, per position of m_pass_order             *)
  recorded,     (* how many passes execute() has recorded                  *)
  m_events,     (* the handles whose event is set                          *)
  content,      (* the handle whose value a physical resource holds        *)
  layout        (* the layout of each image                                *)

vars == <<plan, m_resources, id, m_passes, m_pass_order, transitions, recorded, m_events, content, layout>>

Passes == Plans[plan].passes

(* import(), new_attachment() and new_buffer() make the first handles. *)
Init ==
  /\ plan \in DOMAIN Plans
  /\ m_resources = [i \in DOMAIN Plans[plan].resources |-> [physical |-> Plans[plan].resources[i], producer |-> 0]]
  /\ id = [x \in ToSet(Plans[plan].resources) |-> CHOOSE i \in DOMAIN m_resources : m_resources[i].physical = x]
  /\ m_passes = <<>> /\ m_pass_order = <<>> /\ transitions = <<>> /\ recorded = 0
  /\ m_events = {}
  /\ content = id
  /\ layout = [x \in Images |-> "Undefined"]

Fresh(x) == m_resources[id[x]].producer = 0

(* Pass::read() and write(), one operation of the pass being declared: an  *)
(* additive write reads the old handle, a write and a Present read clone.  *)
Declare(graph, op, pass) ==
  LET x == op.of
      reads == op.access = "read" \/ op.flag = "Additive"
      clones == op.access = "write" \/ op.flag = "Present"
      new == Len(graph.resources) + 1
  IN  [reads |-> IF reads THEN Append(graph.reads, [id |-> graph.id[x], flag |-> op.flag]) ELSE graph.reads,
       writes |-> IF op.access = "write" THEN Append(graph.writes, new) ELSE graph.writes,
       resources |-> IF clones THEN Append(graph.resources, [physical |-> x, producer |-> pass]) ELSE graph.resources,
       id |-> IF clones THEN [graph.id EXCEPT ![x] = new] ELSE graph.id]

(* add_pass() with its operations.  Nothing is read before it is written:  *)
(* the graph asserts it of a new resource, and an imported one has neither *)
(* a layout nor an event to wait for.                                      *)
AddPass ==
  /\ Len(m_passes) < Len(Passes)
  /\ \E pass \in Passes[Len(m_passes) + 1] :
       /\ \A i \in DOMAIN pass.ops : (pass.ops[i].access = "read" \/ pass.ops[i].flag = "Additive") => ~Fresh(pass.ops[i].of)
       /\ LET number == Len(m_passes) + 1
              graph == FoldLeft(LAMBDA g, op : Declare(g, op, number),
                                [reads |-> <<>>, writes |-> <<>>, resources |-> m_resources, id |-> id], pass.ops)
          IN  /\ m_passes' = Append(m_passes, [kind |-> pass.kind, reads |-> graph.reads, writes |-> graph.writes])
              /\ m_resources' = graph.resources
              /\ id' = graph.id
  /\ UNCHANGED <<plan, m_pass_order, transitions, recorded, m_events, content, layout>>

Producer(handle) == m_resources[handle].producer
Physical(handle) == m_resources[handle].physical

(* Mutant of Traverse: a pass is pushed before what it depends on. *)
RECURSIVE TraverseTopDown(_, _)
TraverseTopDown(order, pass) ==
  IF pass = 0 \/ Contains(order, pass) THEN order
  ELSE FoldLeft(LAMBDA o, read : TraverseTopDown(o, Producer(read.id)), Append(order, pass), m_passes[pass].reads)

(* build_order(): post-order from the producer of the target, through the  *)
(* producers of what a pass reads.                                         *)
RECURSIVE Traverse(_, _)
Traverse(order, pass) ==
  IF pass = 0 \/ Contains(order, pass) THEN order
  ELSE Append(FoldLeft(LAMBDA o, read : Traverse(o, Producer(read.id)), order, m_passes[pass].reads), pass)

ReadLayout(kind, flag) ==
  CASE flag = "Present" -> "PresentSrc"
    [] flag # "Present" /\ kind = "Transfer" -> "TransferSrc"
    [] OTHER -> "ReadOnlyOptimal"

WriteLayout(kind) ==
  CASE kind = "Transfer" -> "TransferDst"
    [] kind = "Compute" -> "General"
    [] OTHER -> "AttachmentOptimal"

(* The layouts a pass needs, for the images it reads (an additive read     *)
(* asks for none) and then for those it writes.                            *)
Needed(pass) ==
  LET p == m_passes[pass]
      reads == [i \in DOMAIN p.reads |-> [image |-> Physical(p.reads[i].id), layout |-> ReadLayout(p.kind, p.reads[i].flag),
                                          used |-> p.reads[i].flag # "Additive"]]
      writes == [i \in DOMAIN p.writes |-> [image |-> Physical(p.writes[i]), layout |-> WriteLayout(p.kind), used |-> TRUE]]
  IN  SelectSeq(reads \o writes, LAMBDA need : need.used /\ need.image \in Images)

(* One step of the layout map: a transition where the layout differs. *)
Transition(sync, need) ==
  IF sync.layouts[need.image] = need.layout THEN sync
  ELSE [layouts |-> [sync.layouts EXCEPT ![need.image] = need.layout],
        pass |-> Append(sync.pass, [image |-> need.image, old |-> sync.layouts[need.image], new |-> need.layout])]

(* build_sync(): the transitions of each pass, in the order of the passes. *)
BuildSync(order) ==
  LET step(sync, pass) ==
        LET s == FoldLeft(Transition, [layouts |-> sync.layouts, pass |-> <<>>], Needed(pass))
        IN  [layouts |-> s.layouts, all |-> Append(sync.all, s.pass)]
  IN  FoldLeft(step, [layouts |-> [x \in Images |-> "Undefined"], all |-> <<>>], order).all

(* compile() for the handle that the last pass presents. *)
Compile ==
  /\ Len(m_passes) = Len(Passes) /\ m_pass_order = <<>>
  /\ m_pass_order' = Traverse(<<>>, Producer(Len(m_resources)))
  /\ transitions' = BuildSync(m_pass_order')
  /\ UNCHANGED <<plan, m_resources, id, m_passes, recorded, m_events, content, layout>>

(* record_pass() and the execution of what it recorded: the transitions,   *)
(* the pass itself, and the events of what it wrote.                       *)
RecordPass ==
  /\ recorded < Len(m_pass_order)
  /\ recorded' = recorded + 1
  /\ LET p == m_passes[m_pass_order[recorded + 1]]
     IN  /\ layout' = FoldLeft(LAMBDA l, t : [l EXCEPT ![t.image] = t.new], layout, transitions[recorded + 1])
         /\ content' = FoldLeft(LAMBDA c, w : [c EXCEPT ![Physical(w)] = w], content, p.writes)
         /\ m_events' = m_events \cup ToSet(p.writes)
  /\ UNCHANGED <<plan, m_resources, id, m_passes, m_pass_order, transitions>>

Next == AddPass \/ Compile \/ RecordPass

Spec == Init /\ [][Next]_vars

-----------------------------------------------------------------------------
(* Properties *)

Reads(pass) == {m_passes[pass].reads[i].id : i \in DOMAIN m_passes[pass].reads}
DependsOn(pass) == {Producer(r) : r \in Reads(pass)}
Ancestors ==
  LET above[p \in DOMAIN m_passes] == DependsOn(p) \cup UNION {above[d] : d \in DependsOn(p)}
  IN  above

(* Every pass that replaces the value of a resource depends on all passes  *)
(* that use an earlier value of it.                                        *)
Disciplined ==
  \A p, q \in ToSet(m_pass_order) : \A new \in ToSet(m_passes[p].writes) : \A old \in Reads(q) \cup ToSet(m_passes[q].writes) :
     (p # q /\ Physical(old) = Physical(new) /\ old < new) => q \in Ancestors[p]

(* The pass that is recorded next finds what it asked for: the events it   *)
(* waits for are set by passes before it, its transitions start from the   *)
(* layouts the images have and end in those it needs, and the resources    *)
(* hold the values whose handles it was given.  The last one is up to the  *)
(* caller, and the frame of the program keeps to it.                       *)
PassFindsItsInputs ==
  recorded < Len(m_pass_order) =>
    LET pass == m_pass_order[recorded + 1]
        moved == transitions[recorded + 1]
    IN  /\ Reads(pass) \subseteq m_events
        /\ \A t \in ToSet(moved) : t.old = layout[t.image]
        /\ \A need \in ToSet(Needed(pass)) :
             \/ layout[need.image] = need.layout /\ \A t \in ToSet(moved) : t.image # need.image
             \/ \E t \in ToSet(moved) : t.image = need.image /\ t.new = need.layout
        /\ (Disciplined \/ plan = "frame") => \A r \in Reads(pass) : content[Physical(r)] = r

(* compile() keeps the passes the target depends on, each once, and no     *)
(* other; the pass of the target is the last.                              *)
OrderIsWhatTheTargetNeeds ==
  m_pass_order # <<>> =>
    /\ IsInjective(m_pass_order)
    /\ Last(m_pass_order) = Producer(Len(m_resources))
    /\ ToSet(m_pass_order) = {Last(m_pass_order)} \cup Ancestors[Last(m_pass_order)]

=============================================================================
