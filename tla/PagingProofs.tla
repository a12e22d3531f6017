--------------------------- MODULE PagingProofs ---------------------------
(***************************************************************************)
(* What is proved of demand paging in Part_B for any number of processes,  *)
(* frames, disk pages and pages.  The free frames and disk pages, the page *)
(* directories, tables and entries, and what a process in the kernel has   *)
(* in its local variables are places; no frame and no disk page is in two  *)
(* of them.  Under hypotheses that the theorems name, none is lost either, *)
(* a fault ends mapped, and memory keeps what was written to it.           *)
(***************************************************************************)
EXTENDS Paging, FiniteSetTheorems, WellFoundedInduction, TLAPS

LEMMA Constants ==
    /\ NPROC \in Nat /\ NBOOT \in 1 .. NPROC /\ NBOOT \in Nat
    /\ NFRAME \in Nat /\ NFRAME >= 5 * NBOOT
    /\ Null \notin Frame /\ Null \notin Disk /\ Frame \cap Disk = {}
    /\ MaxPages \in Nat /\ MaxPages >= 3 /\ NFILE \in Nat
    /\ Far \subseteq 3 .. MaxPages - 1
    /\ Ops \subseteq {"fork", "exit", "swap", "grow", "guard"}
    /\ TLB \in BOOLEAN /\ ABit \in BOOLEAN
    /\ 0 \notin Proc /\ \A p \in Proc : p \in Nat
    /\ 0 \in Page /\ 1 \in Page /\ 2 \in Page /\ Guard = 1
  BY PagingAssumption DEF Proc, Page, Guard

-----------------------------------------------------------------------------
(* Min() of a set of numbers is one of them: what NextFree and the victim  *)
(* are chosen by.                                                          *)

LEMMA MinIn ==
    ASSUME NEW T \in SUBSET Nat, T # {}
    PROVE  Min(T) \in T
<1> DEFINE R == OpToRel(<, Nat)
<1>1. IsWellFoundedOn(R, Nat)
  BY NatLessThanWellFounded
<1> HIDE DEF R
<1>2. PICK n \in T : \A m \in T : ~(<<m, n>> \in R)
  BY <1>1, WFMin
<1>3. \A m \in T : ~(m < n)
  BY <1>2 DEF R, OpToRel
<1>4. \A m \in T : n <= m
  BY <1>3
<1> QED  BY <1>4 DEF Min

LEMMA NextFreeIn == ASSUME free \subseteq Frame, free # {} PROVE NextFree \in free /\ NextFree \in Frame
<1>1. free \in SUBSET Nat
  BY DEF Frame
<1> QED  BY <1>1, MinIn DEF NextFree

-----------------------------------------------------------------------------
(* Places and what they hold.                                              *)

Resource == Frame \cup Disk

Place ==
    ({"dir", "got", "disk"} \X Proc) \cup ({"tab"} \X Proc \X Region)
      \cup ({"pte"} \X Proc \X Page)

Held == [x \in Place |->
    IF x[1] = "dir" THEN dir[x[2]]
    ELSE IF x[1] = "got" THEN job[x[2]].got
    ELSE IF x[1] = "disk" THEN job[x[2]].disk
    ELSE IF x[1] = "tab" THEN tab[x[2]][x[3]]
    ELSE pte[x[2]][x[3]].at]

Avail == free \cup freedisk

\* H says what each place holds, A what is free.
Owned(H, A) ==
    /\ \A x \in Place : H[x] \in Resource => H[x] \notin A
    /\ \A x, y \in Place : H[x] = H[y] /\ H[x] \in Resource => x = y
Whole(H, A) == \A r \in Resource : r \in A \/ \E x \in Place : H[x] = r

\* Something free goes to one place.
LEMMA Taken ==
    ASSUME NEW H, NEW A, NEW G, NEW x \in Place, NEW r \in A, Owned(H, A), G[x] = r,
           \A y \in Place \ {x} : G[y] = H[y] \/ G[y] \notin Resource
    PROVE  /\ Owned(G, A \ {r})
           /\ Whole(H, A) /\ H[x] \notin Resource /\ (\A y \in Place \ {x} : G[y] = H[y])
                => Whole(G, A \ {r})
  BY DEF Owned, Whole

\* What is in the place y goes to the place x, and what x held is lost or freed.
Move(H, A, G, B, x, y) ==
    /\ x # y /\ G[x] = H[y] /\ G[y] \notin Resource
    /\ \A z \in Place \ {x, y} : G[z] = H[z] \/ G[z] \notin Resource
    /\ B = A \/ B = A \cup {H[x]}

LEMMA Moved ==
    ASSUME NEW H, NEW A, NEW G, NEW B, NEW x \in Place, NEW y \in Place, Owned(H, A),
           Move(H, A, G, B, x, y)
    PROVE  Owned(G, B)
<1> USE DEF Move
<1>1. \A z \in Place \ {x} : G[z] \in Resource => G[z] = H[z] /\ z # y
  OBVIOUS
<1>2. ASSUME NEW z \in Place, G[z] \in Resource PROVE G[z] \notin A /\ G[z] # H[x]
  BY <1>1, <1>2 DEF Owned
<1>3. ASSUME NEW z \in Place, NEW w \in Place, G[z] = G[w], G[z] \in Resource PROVE z = w
  BY <1>1, <1>3 DEF Owned
<1>4. \A z \in Place : G[z] \in Resource => G[z] \notin B
  BY <1>2
<1> QED  BY <1>3, <1>4, Zenon DEF Owned

LEMMA MovedWhole ==
    ASSUME NEW H, NEW A, NEW G, NEW B, NEW x \in Place, NEW y \in Place,
           Move(H, A, G, B, x, y), Whole(H, A), H[x] \notin Resource \/ B = A \cup {H[x]},
           \A z \in Place \ {x, y} : G[z] = H[z]
    PROVE  Whole(G, B)
  BY DEF Move, Whole

\* The places of D are emptied and what they held is free.
LEMMA Given ==
    ASSUME NEW H, NEW A, NEW G, NEW B, NEW D \in SUBSET Place, Owned(H, A),
           \A x \in D : G[x] \notin Resource,
           \A x \in Place \ D : G[x] = H[x] \/ G[x] \notin Resource,
           \A r \in Resource : r \in B <=> r \in A \/ \E x \in D : H[x] = r
    PROVE  /\ Owned(G, B)
           /\ Whole(H, A) /\ (\A x \in Place \ D : G[x] = H[x]) => Whole(G, B)
<1>1. Owned(G, B)
  BY DEF Owned
<1> QED  BY <1>1 DEF Owned, Whole

\* Places that lose what they hold.
LEMMA Dropped ==
    ASSUME NEW H, NEW A, NEW G, Owned(H, A),
           \A x \in Place : G[x] = H[x] \/ G[x] \notin Resource
    PROVE  Owned(G, A)
  BY DEF Owned

\* The same of a step.
LEMMA TakeStep ==
    ASSUME Owned(Held, Avail), NEW x \in Place, NEW r \in Avail, Avail' = Avail \ {r},
           Held'[x] = r, \A y \in Place \ {x} : Held'[y] = Held[y] \/ Held'[y] \notin Resource
    PROVE  /\ Owned(Held, Avail)'
           /\ Whole(Held, Avail) /\ Held[x] \notin Resource
                /\ (\A y \in Place \ {x} : Held'[y] = Held[y]) => Whole(Held, Avail)'
<1>1. PICK H, A, G, B : H = Held /\ A = Avail /\ G = Held' /\ B = Avail'
  OBVIOUS
<1>2. /\ Owned(G, A \ {r})
      /\ Whole(H, A) /\ H[x] \notin Resource /\ (\A y \in Place \ {x} : G[y] = H[y])
           => Whole(G, A \ {r})
  BY <1>1, Taken
<1>3. (Owned(Held, Avail)' <=> Owned(G, B)) /\ (Whole(Held, Avail)' <=> Whole(G, B))
  BY <1>1 DEF Owned, Whole
<1> QED  BY <1>1, <1>2, <1>3

LEMMA MoveStep ==
    ASSUME Owned(Held, Avail), NEW x \in Place, NEW y \in Place, x # y,
           Held'[x] = Held[y], Held'[y] \notin Resource,
           \A z \in Place \ {x, y} : Held'[z] = Held[z] \/ Held'[z] \notin Resource,
           Avail' = Avail \/ Avail' = Avail \cup {Held[x]}
    PROVE  /\ Owned(Held, Avail)'
           /\ Whole(Held, Avail) /\ (Held[x] \notin Resource \/ Avail' = Avail \cup {Held[x]})
                /\ (\A z \in Place \ {x, y} : Held'[z] = Held[z]) => Whole(Held, Avail)'
<1>1. PICK H, A, G, B : H = Held /\ A = Avail /\ G = Held' /\ B = Avail'
  OBVIOUS
<1>2. Owned(H, A) /\ Move(H, A, G, B, x, y)
  BY <1>1 DEF Move
<1>3. Owned(G, B)
  BY <1>2, Moved
<1>4. ASSUME Whole(Held, Avail), Held[x] \notin Resource \/ Avail' = Avail \cup {Held[x]},
             \A z \in Place \ {x, y} : Held'[z] = Held[z]
      PROVE  Whole(G, B)
  <2>1. /\ Whole(H, A)
        /\ H[x] \notin Resource \/ B = A \cup {H[x]}
        /\ \A z \in Place \ {x, y} : G[z] = H[z]
    BY <1>1, <1>4
  <2> QED  BY <1>2, <2>1, MovedWhole
<1>5. (Owned(Held, Avail)' <=> Owned(G, B)) /\ (Whole(Held, Avail)' <=> Whole(G, B))
  BY <1>1 DEF Owned, Whole
<1> QED  BY <1>3, <1>4, <1>5

LEMMA GiveStep ==
    ASSUME Owned(Held, Avail), NEW D \in SUBSET Place, \A x \in D : Held'[x] \notin Resource,
           \A x \in Place \ D : Held'[x] = Held[x] \/ Held'[x] \notin Resource,
           \A r \in Resource : r \in Avail' <=> (r \in Avail \/ \E x \in D : Held[x] = r)
    PROVE  /\ Owned(Held, Avail)'
           /\ Whole(Held, Avail) /\ (\A x \in Place \ D : Held'[x] = Held[x])
                => Whole(Held, Avail)'
<1>1. PICK H, A, G, B : H = Held /\ A = Avail /\ G = Held' /\ B = Avail'
  OBVIOUS
<1>2. /\ Owned(G, B)
      /\ Whole(H, A) /\ (\A x \in Place \ D : G[x] = H[x]) => Whole(G, B)
  BY <1>1, Given
<1>3. (Owned(Held, Avail)' <=> Owned(G, B)) /\ (Whole(Held, Avail)' <=> Whole(G, B))
  BY <1>1 DEF Owned, Whole
<1> QED  BY <1>1, <1>2, <1>3

LEMMA DropStep ==
    ASSUME Owned(Held, Avail), UNCHANGED Avail,
           \A x \in Place : Held'[x] = Held[x] \/ Held'[x] \notin Resource
    PROVE  /\ Owned(Held, Avail)'
           /\ Whole(Held, Avail) /\ (\A x \in Place : Held'[x] = Held[x])
                => Whole(Held, Avail)'
  BY DEF Owned, Whole

\* A move, and something free goes to a third place.
LEMMA MovedTaken ==
    ASSUME NEW H, NEW A, NEW G, NEW x \in Place, NEW y \in Place, NEW t \in Place, NEW r \in A,
           Owned(H, A), x # y, x # t, y # t, G[x] = H[y], G[y] \notin Resource, G[t] = r,
           \A z \in Place \ {x, y, t} : G[z] = H[z]
    PROVE  /\ Owned(G, A \ {r})
           /\ Whole(H, A) /\ H[x] \notin Resource /\ H[t] \notin Resource => Whole(G, A \ {r})
<1>1. PICK M : M = [z \in Place |-> IF z = t THEN H[t] ELSE G[z]]
  OBVIOUS
<1>2. M[t] = H[t] /\ \A z \in Place \ {t} : M[z] = G[z]
  BY <1>1
<1>3. Move(H, A, M, A, x, y) /\ \A z \in Place \ {x, y} : M[z] = H[z]
  BY <1>2 DEF Move
<1>4. Owned(M, A)
  BY <1>3, Moved
<1>5. Owned(G, A \ {r})
  BY <1>2, <1>4, Taken
<1>6. Whole(H, A) /\ H[x] \notin Resource => Whole(M, A)
  BY <1>3, MovedWhole
<1>7. Whole(M, A) /\ H[t] \notin Resource => Whole(G, A \ {r})
  BY <1>2, <1>4, Taken
<1> QED  BY <1>5, <1>6, <1>7

LEMMA MoveTakeStep ==
    ASSUME Owned(Held, Avail), NEW x \in Place, NEW y \in Place, NEW t \in Place,
           NEW r \in Avail, Avail' = Avail \ {r}, x # y, x # t, y # t,
           Held'[x] = Held[y], Held'[y] \notin Resource, Held'[t] = r,
           \A z \in Place \ {x, y, t} : Held'[z] = Held[z]
    PROVE  /\ Owned(Held, Avail)'
           /\ Whole(Held, Avail) /\ Held[x] \notin Resource /\ Held[t] \notin Resource
                => Whole(Held, Avail)'
<1>1. PICK H, A, G, B : H = Held /\ A = Avail /\ G = Held' /\ B = Avail'
  OBVIOUS
<1>2. /\ Owned(G, A \ {r})
      /\ Whole(H, A) /\ H[x] \notin Resource /\ H[t] \notin Resource => Whole(G, A \ {r})
  BY <1>1, MovedTaken
<1>3. (Owned(Held, Avail)' <=> Owned(G, B)) /\ (Whole(Held, Avail)' <=> Whole(G, B))
  BY <1>1 DEF Owned, Whole
<1> QED  BY <1>1, <1>2, <1>3

\* The places by what they are.
LEMMA PlaceIs ==
    /\ \A p \in Proc : /\ <<"dir", p>> \in Place /\ Held[<<"dir", p>>] = dir[p]
                       /\ <<"got", p>> \in Place /\ Held[<<"got", p>>] = job[p].got
                       /\ <<"disk", p>> \in Place /\ Held[<<"disk", p>>] = job[p].disk
    /\ \A p \in Proc, r \in Region :
          <<"tab", p, r>> \in Place /\ Held[<<"tab", p, r>>] = tab[p][r]
    /\ \A p \in Proc, v \in Page :
          <<"pte", p, v>> \in Place /\ Held[<<"pte", p, v>>] = pte[p][v].at
  BY DEF Place, Held

LEMMA PlaceCases ==
    ASSUME NEW x \in Place
    PROVE  \/ \E p \in Proc : x = <<"dir", p>> \/ x = <<"got", p>> \/ x = <<"disk", p>>
           \/ \E p \in Proc, r \in Region : x = <<"tab", p, r>>
           \/ \E p \in Proc, v \in Page : x = <<"pte", p, v>>
  BY DEF Place

\* What a step changes of the places, from what it changes of the variables.
LEMMA HeldKept ==
    ASSUME NEW S,
           \A p \in Proc : <<"dir", p>> \in S \/ dir'[p] = dir[p],
           \A p \in Proc : <<"got", p>> \in S \/ job'[p].got = job[p].got,
           \A p \in Proc : <<"disk", p>> \in S \/ job'[p].disk = job[p].disk,
           \A p \in Proc, r \in Region : <<"tab", p, r>> \in S \/ tab'[p][r] = tab[p][r],
           \A p \in Proc, v \in Page : <<"pte", p, v>> \in S \/ pte'[p][v].at = pte[p][v].at
    PROVE  \A x \in Place \ S : Held'[x] = Held[x]
<1> SUFFICES ASSUME NEW x \in Place \ S PROVE Held'[x] = Held[x]
  OBVIOUS
<1>0. /\ \A p \in Proc : /\ Held'[<<"dir", p>>] = dir'[p]
                         /\ Held'[<<"got", p>>] = job'[p].got
                         /\ Held'[<<"disk", p>>] = job'[p].disk
      /\ \A p \in Proc, r \in Region : Held'[<<"tab", p, r>>] = tab'[p][r]
      /\ \A p \in Proc, v \in Page : Held'[<<"pte", p, v>>] = pte'[p][v].at
  BY DEF Place, Held
<1>1. ASSUME NEW p \in Proc, x = <<"dir", p>> \/ x = <<"got", p>> \/ x = <<"disk", p>>
      PROVE  Held'[x] = Held[x]
  <2>1. CASE x = <<"dir", p>>
    BY <1>0, <2>1, PlaceIs
  <2>2. CASE x = <<"got", p>>
    BY <1>0, <2>2, PlaceIs
  <2>3. CASE x = <<"disk", p>>
    BY <1>0, <2>3, PlaceIs
  <2> QED  BY <1>1, <2>1, <2>2, <2>3
<1>2. ASSUME NEW p \in Proc, NEW r \in Region, x = <<"tab", p, r>>
      PROVE  Held'[x] = Held[x]
  BY <1>0, <1>2, PlaceIs
<1>3. ASSUME NEW p \in Proc, NEW v \in Page, x = <<"pte", p, v>>
      PROVE  Held'[x] = Held[x]
  BY <1>0, <1>3, PlaceIs
<1> QED  BY <1>1, <1>2, <1>3, PlaceCases

-----------------------------------------------------------------------------
(* The inductive invariant.                                                *)

Job == [what : {"none", "fault", "swap", "in", "copy"}, page : 0 .. MaxPages,
        child : 0 .. NPROC, pte : Pte, got : Frame \cup {Null},
        victim : Page, disk : Disk \cup {Null}]

Faults == {"fault", "in", "copy"}

\* What a process at l has in its local variables j, its entries being t and its
\* size s.
JobOK(l, j, t, s) ==
    /\ l \in {"unused", "embryo", "user"} => j = NoJob
    /\ (l = "have") <=> (j.got # Null)
    /\ (l = "write") <=> (j.disk # Null)
    /\ l = "write" => j.what # "none" /\ t[j.victim].at \in Frame
    /\ l \in {"kalloc", "victim", "again", "have"} => j.what \in Faults
    /\ l = "copy" => j.child # 0
    /\ (j.what \in {"in", "copy"} => j.child # 0) /\ (j.what \in {"fault", "swap"} => j.child = 0)
    /\ j.what \in Faults => j.page < s
    /\ j.child # 0 => j.page <= s /\ "fork" \in Ops
    /\ j.what = "in" /\ l # "copy" => t[j.page].at \in Disk
    /\ j.what = "copy" => j.pte.at \notin Disk

Jobs == \A p \in Proc : JobOK(pc[p], job[p], pte[p], sz[p])

\* A process that is being made by fork() has one parent, which is busy with it.
Children ==
    /\ \A p \in Proc : job[p].child # 0 => pc[job[p].child] = "embryo"
    /\ \A p, q \in Proc : job[p].child = job[q].child /\ p # q => job[p].child = 0

PagingInv == TypeOK /\ Jobs /\ Children /\ Owned(Held, Avail)

LEMMA Typing ==
    ASSUME TypeOK
    PROVE  /\ \A p \in Proc : pc[p] \in PC /\ job[p] \in Job /\ sz[p] \in 0 .. MaxPages
           /\ \A p \in Proc : dir[p] \in Frame \cup {Null}
           /\ \A p \in Proc, r \in Region : tab[p][r] \in Frame \cup {Null}
           /\ \A p \in Proc, v \in Page :
                pte[p][v] \in Pte /\ stale[p][v] \in Frame \cup {Null} /\ val[p][v] \in Data
  BY DEF TypeOK, Job

LEMMA NoJobTyped ==
    /\ NoJob \in Job /\ NoPte \in Pte
    /\ NoJob.what = "none" /\ NoJob.page = 0 /\ NoJob.child = 0
    /\ NoJob.got = Null /\ NoJob.disk = Null /\ NoJob.victim = 0
  BY Constants DEF NoJob, Job, NoPte, Pte, Entry

-----------------------------------------------------------------------------
(* What makes every frame and disk page accounted for: without pages out of  *)
(* the reach of a page table, without faults on the guard page, and with     *)
(* fork() or growproc() but not both, nothing that a process has is dropped. *)

Tame ==
    /\ Far = {} /\ "guard" \notin Ops /\ ~({"fork", "grow"} \subseteq Ops)
    /\ "fork" \in Ops => NFRAME >= NPROC * (MaxPages + 2)

Live(p) == pc[p] \notin {"unused", "embryo"}

\* The pages below n are mapped or swapped, and no others.
Copied(q, n) ==
    /\ \A v \in Page : (v < n) <=> (pte[q][v].at # Null)
    /\ n > 0 => tab[q]["near"] # Null

Tidy ==
    /\ \A p \in Proc : pc[p] = "unused" =>
          dir[p] = Null /\ (\A r \in Region : tab[p][r] = Null) /\ Copied(p, 0)
    /\ \A p \in Proc : Live(p) => tab[p]["near"] # Null /\ sz[p] >= 3
    /\ \A p \in Proc, v \in Page : Present(p, v) /\ v # Guard => pte[p][v].u = TRUE
    /\ "fork" \in Ops =>
          \A p \in Proc, v \in Page : Live(p) /\ v < sz[p] => pte[p][v].at # Null
    /\ \A p \in Proc : job[p].what = "fault" =>
          job[p].page # Guard /\ pte[p][job[p].page].at \notin Frame
    /\ \A p \in Proc : job[p].what = "copy" =>
          job[p].pte.at \in Frame /\ (job[p].page # Guard => job[p].pte.u = TRUE)
    /\ \A p \in Proc : job[p].child # 0 => Copied(job[p].child, job[p].page)

OwnedInv == PagingInv /\ Whole(Held, Avail) /\ Tidy

-----------------------------------------------------------------------------
(* The initial states.                                                     *)

LEMMA Boots ==
    /\ \A p \in 1 .. NBOOT, i \in 1 .. 5 :
          Boot(p, i) = 5 * (p - 1) + i /\ Boot(p, i) \in 1 .. 5 * NBOOT /\ Boot(p, i) \in Frame
    /\ \A p, q \in 1 .. NBOOT, i, j \in 1 .. 5 : Boot(p, i) = Boot(q, j) => p = q /\ i = j
    /\ \A p \in Proc, i \in 1 .. 5 : p \in 1 .. NBOOT \/ Boot(p, i) = Null
<1>1. ASSUME NEW p \in 1 .. NBOOT, NEW i \in 1 .. 5
      PROVE  Boot(p, i) = 5 * (p - 1) + i /\ Boot(p, i) \in 1 .. 5 * NBOOT /\ Boot(p, i) \in Frame
  BY Constants DEF Boot, Frame
<1>2. \A p, q \in 1 .. NBOOT, i, j \in 1 .. 5 : Boot(p, i) = Boot(q, j) => p = q /\ i = j
  BY <1>1, Constants
<1>3. \A p \in Proc, i \in 1 .. 5 : p \in 1 .. NBOOT \/ Boot(p, i) = Null
  BY Constants DEF Boot, Proc
<1> QED  BY <1>1, <1>2, <1>3

\* The place of a booted process's i-th frame.
BootPlace(p, i) ==
    IF i = 1 THEN <<"dir", p>> ELSE IF i = 2 THEN <<"tab", p, "near">> ELSE <<"pte", p, i - 3>>

LEMMA BootHeld ==
    ASSUME Init, NEW x \in Place, Held[x] # Null
    PROVE  \E p \in 1 .. NBOOT, i \in 1 .. 5 : x = BootPlace(p, i) /\ Held[x] = Boot(p, i)
<1> USE Constants
<1>1. ASSUME NEW p \in Proc, x = <<"dir", p>> \/ x = <<"got", p>> \/ x = <<"disk", p>>
      PROVE  \E q \in 1 .. NBOOT, i \in 1 .. 5 : x = BootPlace(q, i) /\ Held[x] = Boot(q, i)
  <2>1. job[p].got = Null /\ job[p].disk = Null /\ dir[p] = Boot(p, 1)
    BY DEF Init, NoJob
  <2>2. x = <<"dir", p>> /\ Held[x] = Boot(p, 1)
    BY <1>1, <2>1, PlaceIs
  <2>3. p \in 1 .. NBOOT
    BY <2>2, Boots
  <2> QED  BY <2>2, <2>3 DEF BootPlace
<1>2. ASSUME NEW p \in Proc, NEW r \in Region, x = <<"tab", p, r>>
      PROVE  \E q \in 1 .. NBOOT, i \in 1 .. 5 : x = BootPlace(q, i) /\ Held[x] = Boot(q, i)
  <2>1. tab[p][r] = IF r = "near" THEN Boot(p, 2) ELSE Null
    BY DEF Init
  <2>2. r = "near" /\ Held[x] = Boot(p, 2)
    BY <1>2, <2>1, PlaceIs
  <2>3. p \in 1 .. NBOOT
    BY <2>2, Boots
  <2> QED  BY <1>2, <2>2, <2>3 DEF BootPlace
<1>3. ASSUME NEW p \in Proc, NEW v \in Page, x = <<"pte", p, v>>
      PROVE  \E q \in 1 .. NBOOT, i \in 1 .. 5 : x = BootPlace(q, i) /\ Held[x] = Boot(q, i)
  <2>1. pte[p][v].at = IF p <= NBOOT /\ v <= 2 THEN Boot(p, v + 3) ELSE Null
    BY DEF Init, Entry, NoPte
  <2>2. p \in 1 .. NBOOT /\ v <= 2 /\ Held[x] = Boot(p, v + 3)
    BY <1>3, <2>1, PlaceIs DEF Proc
  <2>3. v + 3 \in 1 .. 5 /\ v + 3 # 1 /\ v + 3 # 2 /\ (v + 3) - 3 = v
    BY <2>2 DEF Page
  <2> QED  BY <1>3, <2>2, <2>3 DEF BootPlace
<1> QED  BY <1>1, <1>2, <1>3, PlaceCases

LEMMA InitOwned == Init => Owned(Held, Avail) /\ Whole(Held, Avail)
<1> SUFFICES ASSUME Init PROVE Owned(Held, Avail) /\ Whole(Held, Avail)
  OBVIOUS
<1> USE Constants
<1>0. /\ \A p \in Proc : tab[p]["near"] = Boot(p, 2)
      /\ \A p \in Proc, v \in Page : p <= NBOOT /\ v <= 2 => pte[p][v].at = Boot(p, v + 3)
  BY DEF Init, Region, Entry
<1>1. Avail = (5 * NBOOT + 1 .. NFRAME) \cup Disk
  BY DEF Init, Avail
<1>2. \A p \in 1 .. NBOOT, i \in 1 .. 5 : Boot(p, i) \notin Avail
  BY <1>1, Boots DEF Frame
<1>3. Null \notin Resource
  BY DEF Resource
<1>4. Owned(Held, Avail)
  <2>1. \A x \in Place : Held[x] \in Resource => Held[x] \notin Avail
    BY <1>2, <1>3, BootHeld
  <2>2. ASSUME NEW x \in Place, NEW y \in Place, Held[x] = Held[y], Held[x] \in Resource
        PROVE  x = y
    <3>1. PICK p \in 1 .. NBOOT, i \in 1 .. 5 : x = BootPlace(p, i) /\ Held[x] = Boot(p, i)
      BY <1>3, <2>2, BootHeld
    <3>2. PICK q \in 1 .. NBOOT, j \in 1 .. 5 : y = BootPlace(q, j) /\ Held[y] = Boot(q, j)
      BY <1>3, <2>2, BootHeld
    <3>3. p = q /\ i = j
      BY <2>2, <3>1, <3>2, Boots
    <3> QED  BY <3>1, <3>2, <3>3
  <2> QED  BY <2>1, <2>2 DEF Owned
<1>5. Whole(Held, Avail)
  <2>1. ASSUME NEW r \in Resource, r \notin Avail PROVE \E x \in Place : Held[x] = r
    <3>1. r \in 1 .. 5 * NBOOT
      BY <1>1, <2>1 DEF Resource, Frame
    <3>2. PICK p \in 1 .. NBOOT, i \in 1 .. 5 : r = 5 * (p - 1) + i
      <4> DEFINE d == (r - 1) \div 5
                 e == (r - 1) % 5
      <4>1. d \in Nat /\ e \in 0 .. 4 /\ r - 1 = 5 * d + e
        BY <3>1
      <4>2. d + 1 \in 1 .. NBOOT /\ e + 1 \in 1 .. 5 /\ r = 5 * ((d + 1) - 1) + (e + 1)
        <5> HIDE DEF d, e
        <5> QED  BY <3>1, <4>1
      <4> QED  BY <4>2
    <3>3. r = Boot(p, i) /\ p \in Proc /\ p <= NBOOT
      <4>1. Boot(p, i) = 5 * (p - 1) + i
        BY Boots
      <4> QED  BY <3>2, <4>1 DEF Proc
    <3>4. CASE i = 1
      <4>1. dir[p] = r
        BY <3>3, <3>4 DEF Init
      <4> QED  BY <3>3, <4>1, PlaceIs
    <3>5. CASE i = 2
      <4>1. "near" \in Region
        BY DEF Region
      <4>2. <<"tab", p, "near">> \in Place /\ Held[<<"tab", p, "near">>] = Boot(p, 2)
        BY <1>0, <3>3, <4>1, PlaceIs
      <4> QED  BY <3>3, <3>5, <4>2
    <3>6. CASE i \in 3 .. 5
      <4>1. i - 3 \in Page /\ i - 3 <= 2 /\ (i - 3) + 3 = i
        BY <3>6 DEF Page
      <4>2. /\ <<"pte", p, i - 3>> \in Place
            /\ Held[<<"pte", p, i - 3>>] = Boot(p, (i - 3) + 3)
        BY <1>0, <3>3, <4>1, PlaceIs
      <4> QED  BY <3>3, <4>1, <4>2
    <3> QED  BY <3>4, <3>5, <3>6
  <2> QED  BY <2>1 DEF Whole
<1> QED  BY <1>4, <1>5

LEMMA Initially == Init => PagingInv
<1> SUFFICES ASSUME Init PROVE PagingInv
  OBVIOUS
<1> USE Constants
<1>1. TypeOK
  <2>1. free \subseteq Frame /\ freedisk \subseteq Disk /\ files \in 0 .. NFILE /\ stopped \in Why
    BY DEF Init, Frame, Why
  <2>2. mem \in [Frame -> Data] /\ disk \in [Disk -> Data]
    BY DEF Init, Data
  <2>3. \A p \in Proc, i \in 1 .. 5 : Boot(p, i) \in Frame \cup {Null}
    BY Boots
  <2>4. dir \in [Proc -> Frame \cup {Null}]
    BY <2>3 DEF Init
  <2>5. tab \in [Proc -> [Region -> Frame \cup {Null}]]
    BY <2>3 DEF Init
  <2>6. pte \in [Proc -> [Page -> Pte]]
    <3>1. ASSUME NEW p \in Proc, NEW v \in Page, v <= 2
          PROVE  Entry(Boot(p, v + 3), v # Guard, FALSE) \in Pte
      <4>1. v + 3 \in 1 .. 5
        BY <3>1 DEF Page
      <4> QED  BY <2>3, <4>1 DEF Entry, Pte
    <3>2. NoPte \in Pte
      BY DEF NoPte, Entry, Pte
    <3> QED  BY <3>1, <3>2 DEF Init
  <2>7. sz \in [Proc -> 0 .. MaxPages] /\ pc \in [Proc -> PC]
    BY DEF Init, PC
  <2>8. stale \in [Proc -> [Page -> Frame \cup {Null}]] /\ val \in [Proc -> [Page -> Data]]
    BY DEF Init, NoStale, Data
  <2>9. job \in [Proc -> Job]
    BY NoJobTyped DEF Init
  <2> QED  BY <2>1, <2>2, <2>4, <2>5, <2>6, <2>7, <2>8, <2>9 DEF TypeOK, Job
<1>2. \A p \in Proc : pc[p] \in {"user", "unused"} /\ job[p] = NoJob
  BY DEF Init
<1>3. Jobs
  BY <1>2, NoJobTyped DEF Jobs, JobOK, Faults
<1>4. Children
  BY <1>2, NoJobTyped DEF Children
<1> QED  BY <1>1, <1>3, <1>4, InitOwned DEF PagingInv

LEMMA InitTidy == Init /\ Tame => Tidy
<1> SUFFICES ASSUME Init, Tame PROVE Tidy
  OBVIOUS
<1> USE Constants
<1>1. \A p \in Proc : p <= NBOOT <=> pc[p] # "unused"
  BY DEF Init
<1>2. \A p \in Proc : pc[p] \in {"user", "unused"} /\ job[p] = NoJob
  BY DEF Init
<1>3. \A p \in Proc : p <= NBOOT => p \in 1 .. NBOOT
  BY DEF Proc
<1>4. \A p \in Proc : p <= NBOOT => dir[p] = Boot(p, 1) /\ tab[p]["near"] = Boot(p, 2) /\ sz[p] = 3
  BY DEF Init, Region
<1>5. ASSUME NEW p \in Proc, NEW v \in Page
      PROVE  /\ p <= NBOOT /\ v <= 2 => pte[p][v].at \in Frame /\ pte[p][v].u = (v # Guard)
             /\ ~(p <= NBOOT /\ v <= 2) => pte[p][v].at = Null
  <2>1. v <= 2 => v + 3 \in 1 .. 5
    BY DEF Page
  <2>2. p <= NBOOT /\ v <= 2 => Boot(p, v + 3) \in Frame
    BY <1>3, <2>1, Boots
  <2> QED  BY <2>2 DEF Init, Entry, NoPte
<1>6. \A p \in Proc : ~(p <= NBOOT) => dir[p] = Null /\ \A r \in Region : tab[p][r] = Null
  BY DEF Init, Boot
<1>7. ASSUME NEW p \in Proc, pc[p] = "unused"
      PROVE  dir[p] = Null /\ (\A r \in Region : tab[p][r] = Null) /\ Copied(p, 0)
  BY <1>1, <1>5, <1>6, <1>7 DEF Copied, Page
<1>8. ASSUME NEW p \in Proc, Live(p) PROVE tab[p]["near"] # Null /\ sz[p] >= 3
  BY <1>1, <1>3, <1>4, <1>8, Boots DEF Live
<1>9. \A p \in Proc, v \in Page : Present(p, v) /\ v # Guard => pte[p][v].u = TRUE
  BY <1>5 DEF Present
<1>10. ASSUME NEW p \in Proc, NEW v \in Page, Live(p), v < sz[p] PROVE pte[p][v].at # Null
  BY <1>1, <1>4, <1>5, <1>10 DEF Live, Page
<1>11. \A p \in Proc : job[p].what = "none" /\ job[p].child = 0
  BY <1>2, NoJobTyped
<1> QED  BY <1>7, <1>8, <1>9, <1>10, <1>11 DEF Tidy

-----------------------------------------------------------------------------
(* Steps of one process.                                                   *)

\* The local variables of the others, and which processes fork() is making.
LEMMA OthersKept ==
    ASSUME PagingInv, NEW p \in Proc, pc[p] # "embryo",
           \A q \in Proc \ {p} : /\ pc'[q] = pc[q] /\ job'[q] = job[q]
                                 /\ pte'[q] = pte[q] /\ sz'[q] = sz[q],
           JobOK(pc'[p], job'[p], pte'[p], sz'[p]), job'[p].child \in {0, job[p].child}
    PROVE  Jobs' /\ Children'
<1>1. Jobs'
  BY DEF PagingInv, Jobs
<1>2. \A q \in Proc : job'[q].child \in {0, job[q].child}
  OBVIOUS
<1>3. ASSUME NEW q \in Proc, job'[q].child # 0 PROVE pc'[job'[q].child] = "embryo"
  <2>1. job'[q].child = job[q].child /\ pc[job[q].child] = "embryo"
    BY <1>2, <1>3 DEF PagingInv, Children
  <2>2. job[q].child \in Proc
    BY <1>3, <2>1, Typing DEF PagingInv, Job, Proc
  <2>3. job[q].child # p
    BY <2>1
  <2> QED  BY <2>1, <2>2, <2>3
<1>4. \A q, r \in Proc : job'[q].child = job'[r].child /\ q # r => job'[q].child = 0
  BY <1>2 DEF PagingInv, Children
<1> QED  BY <1>1, <1>3, <1>4 DEF Children

\* A step that only changes pc, local variables and what is free.
LocalStep(p, l, j) ==
    /\ pc' = [pc EXCEPT ![p] = l] /\ job' = [job EXCEPT ![p] = j]
    /\ free' \subseteq Frame /\ freedisk' \subseteq Disk
    /\ UNCHANGED <<mem, disk, dir, tab, pte, sz, stale, files, val, stopped>>

LEMMA LocalInv ==
    ASSUME PagingInv, NEW p \in Proc, NEW l \in PC, NEW j \in Job, LocalStep(p, l, j),
           pc[p] # "embryo", JobOK(l, j, pte[p], sz[p]), j.child \in {0, job[p].child}
    PROVE  TypeOK' /\ Jobs' /\ Children'
<1>1. /\ pc' \in [Proc -> PC] /\ job' \in [Proc -> Job]
      /\ pc'[p] = l /\ job'[p] = j /\ \A q \in Proc \ {p} : pc'[q] = pc[q] /\ job'[q] = job[q]
  BY DEF PagingInv, TypeOK, LocalStep, Job
<1>2. TypeOK'
  BY <1>1 DEF PagingInv, TypeOK, LocalStep, Job
<1>3. UNCHANGED <<pte, sz>>
  BY DEF LocalStep
<1>4. JobOK(pc'[p], job'[p], pte'[p], sz'[p]) /\ job'[p].child \in {0, job[p].child}
  BY <1>1, <1>3
<1>5. Jobs' /\ Children'
  BY <1>1, <1>3, <1>4, OthersKept
<1> QED  BY <1>2, <1>5

LEMMA LocalHeld ==
    ASSUME TypeOK, NEW p \in Proc, NEW j \in Job, job' = [job EXCEPT ![p] = j],
           UNCHANGED <<dir, tab, pte>>
    PROVE  /\ <<"got", p>> \in Place /\ <<"disk", p>> \in Place /\ <<"got", p>> # <<"disk", p>>
           /\ Held[<<"got", p>>] = job[p].got /\ Held[<<"disk", p>>] = job[p].disk
           /\ Held'[<<"got", p>>] = j.got /\ Held'[<<"disk", p>>] = j.disk
           /\ \A x \in Place \ {<<"got", p>>, <<"disk", p>>} : Held'[x] = Held[x]
<1>1. job'[p] = j /\ \A q \in Proc \ {p} : job'[q] = job[q]
  BY DEF TypeOK
<1>2. <<"got", p>> \in Place /\ <<"disk", p>> \in Place /\ <<"got", p>> # <<"disk", p>>
  BY PlaceIs
<1>3. Held'[<<"got", p>>] = j.got /\ Held'[<<"disk", p>>] = j.disk
  BY <1>1, <1>2 DEF Held
<1> DEFINE S == {<<"got", p>>, <<"disk", p>>}
<1>4. /\ \A q \in Proc : <<"dir", q>> \in S \/ dir'[q] = dir[q]
      /\ \A q \in Proc : <<"got", q>> \in S \/ job'[q].got = job[q].got
      /\ \A q \in Proc : <<"disk", q>> \in S \/ job'[q].disk = job[q].disk
      /\ \A q \in Proc, r \in Region : <<"tab", q, r>> \in S \/ tab'[q][r] = tab[q][r]
      /\ \A q \in Proc, v \in Page : <<"pte", q, v>> \in S \/ pte'[q][v].at = pte[q][v].at
  BY <1>1
<1>5. \A x \in Place \ S : Held'[x] = Held[x]
  <2> HIDE DEF S
  <2> QED  BY <1>4, HeldKept
<1> QED  BY <1>2, <1>3, <1>5, PlaceIs

LEMMA LocalTidy ==
    ASSUME PagingInv, Tidy, NEW p \in Proc, NEW l \in PC, NEW j \in Job, LocalStep(p, l, j),
           Live(p), l \notin {"unused", "embryo"},
           j.what = "fault" => j.page # Guard /\ pte[p][j.page].at \notin Frame,
           j.what = "copy" => j.pte.at \in Frame /\ (j.page # Guard => j.pte.u = TRUE),
           j.child = 0 \/ (j.child = job[p].child /\ j.page = job[p].page)
    PROVE  Tidy'
<1>1. /\ pc'[p] = l /\ job'[p] = j /\ \A q \in Proc \ {p} : pc'[q] = pc[q] /\ job'[q] = job[q]
      /\ UNCHANGED <<dir, tab, pte, sz>>
  BY DEF PagingInv, TypeOK, LocalStep
<1>2. \A q \in Proc : Live(q)' <=> Live(q)
  BY <1>1 DEF Live
<1>3. \A q \in Proc : pc'[q] = "unused" <=> pc[q] = "unused"
  BY <1>1 DEF Live
<1>4. \A q, n : Copied(q, n)' <=> Copied(q, n)
  BY <1>1 DEF Copied
<1>5. \A q \in Proc : /\ job'[q].what = "fault" =>
                            job'[q].page # Guard /\ pte[q][job'[q].page].at \notin Frame
                      /\ job'[q].what = "copy" =>
                            job'[q].pte.at \in Frame /\ (job'[q].page # Guard => job'[q].pte.u = TRUE)
  BY <1>1 DEF Tidy
<1>6. \A q \in Proc : job'[q].child # 0 => Copied(job'[q].child, job'[q].page)
  BY <1>1 DEF Tidy
<1> QED  BY <1>1, <1>2, <1>3, <1>4, <1>5, <1>6 DEF Tidy, Present

\* One process gives or takes a frame of kalloc() or a disk page of balloc_page().
SameWork(j, k) == k.what = j.what /\ k.page = j.page /\ k.child = j.child /\ k.pte = j.pte

LEMMA GotSet ==
    ASSUME NEW j \in Job, NEW f \in Frame \cup {Null}, NEW k, k = [j EXCEPT !.got = f]
    PROVE  k \in Job /\ SameWork(j, k) /\ k.got = f /\ k.victim = j.victim /\ k.disk = j.disk
  BY DEF Job, SameWork

LEMMA VictimSet ==
    ASSUME NEW j \in Job, NEW v \in Page, NEW d \in Disk \cup {Null},
           NEW k, k = [j EXCEPT !.victim = v, !.disk = d]
    PROVE  k \in Job /\ SameWork(j, k) /\ k.got = j.got /\ k.victim = v /\ k.disk = d
  BY DEF Job, SameWork

LEMMA AvailLess ==
    ASSUME TypeOK, NEW r
    PROVE  /\ r \in free => (free \ {r}) \cup freedisk = Avail \ {r}
           /\ r \in freedisk => free \cup (freedisk \ {r}) = Avail \ {r}
  BY Constants DEF TypeOK, Avail

LEMMA NullHeld == Null \notin Resource
  BY Constants DEF Resource

\* kalloc() that finds a frame, the first or the second.
LEMMA TakeFrame ==
    ASSUME PagingInv, NEW p \in Proc, pc[p] \in {"kalloc", "again"}, free # {},
           free' = free \ {NextFree}, job' = [job EXCEPT ![p].got = NextFree],
           pc' = [pc EXCEPT ![p] = "have"],
           UNCHANGED <<freedisk, mem, disk, dir, tab, pte, sz, stale, files, val, stopped>>
    PROVE  PagingInv' /\ (OwnedInv => OwnedInv')
<1>1. PICK j : j = [job[p] EXCEPT !.got = NextFree]
  OBVIOUS
<1>2. NextFree \in free /\ NextFree \in Frame /\ NextFree # Null
  BY NextFreeIn, Constants DEF PagingInv, TypeOK
<1>3. job[p] \in Job /\ JobOK(pc[p], job[p], pte[p], sz[p])
  BY Typing DEF PagingInv, Jobs
<1>4. j \in Job /\ SameWork(job[p], j) /\ j.got = NextFree /\ j.victim = job[p].victim
      /\ j.disk = job[p].disk
  BY <1>1, <1>2, <1>3, GotSet
<1>5. job[p].got = Null /\ job[p].disk = Null /\ job[p].what \in Faults
  BY <1>3 DEF JobOK
<1>6. job' = [job EXCEPT ![p] = j] /\ LocalStep(p, "have", j) /\ "have" \in PC
  BY <1>1, Constants DEF LocalStep, PagingInv, TypeOK, PC
<1>7. JobOK("have", j, pte[p], sz[p])
  BY <1>2, <1>3, <1>4, <1>5 DEF JobOK, SameWork
<1>8. TypeOK' /\ Jobs' /\ Children'
  BY <1>4, <1>6, <1>7, LocalInv DEF SameWork
<1>9. /\ <<"got", p>> \in Place /\ Held[<<"got", p>>] = Null /\ Held'[<<"got", p>>] = NextFree
      /\ \A x \in Place \ {<<"got", p>>} : Held'[x] = Held[x]
  <2>1. UNCHANGED <<dir, tab, pte>>
    BY DEF LocalStep
  <2>2. /\ <<"got", p>> \in Place /\ <<"disk", p>> \in Place
        /\ Held[<<"got", p>>] = Null /\ Held[<<"disk", p>>] = Null
        /\ Held'[<<"got", p>>] = NextFree /\ Held'[<<"disk", p>>] = Null
        /\ \A x \in Place \ {<<"got", p>>, <<"disk", p>>} : Held'[x] = Held[x]
    BY <1>4, <1>5, <1>6, <2>1, LocalHeld DEF PagingInv
  <2> QED  BY <2>2
<1>10. NextFree \in Avail /\ Avail' = Avail \ {NextFree}
  BY <1>2, AvailLess DEF PagingInv, Avail
<1>11. Owned(Held, Avail)' /\ (Whole(Held, Avail) => Whole(Held, Avail)')
  BY <1>9, <1>10, TakeStep, NullHeld DEF PagingInv
<1>12. Tidy => Tidy'
  <2>1. Live(p) /\ "have" \notin {"unused", "embryo"}
    BY DEF Live
  <2>2. Tidy => /\ j.what = "fault" => j.page # Guard /\ pte[p][j.page].at \notin Frame
                /\ j.what = "copy" => j.pte.at \in Frame /\ (j.page # Guard => j.pte.u = TRUE)
    BY <1>4 DEF Tidy, SameWork
  <2> QED  BY <1>4, <1>6, <2>1, <2>2, LocalTidy DEF SameWork
<1> QED  BY <1>8, <1>11, <1>12 DEF PagingInv, OwnedInv

\* Nothing is taken.
LEMMA LocalSame ==
    ASSUME PagingInv, NEW p \in Proc, NEW l, NEW j \in Job, LocalStep(p, l, j),
           UNCHANGED <<free, freedisk>>, j.disk = job[p].disk, j.got \in {job[p].got, Null}
    PROVE  Owned(Held, Avail)' /\ (Whole(Held, Avail) /\ j.got = job[p].got => Whole(Held, Avail)')
<1>1. UNCHANGED <<dir, tab, pte>> /\ job' = [job EXCEPT ![p] = j] /\ UNCHANGED Avail
  BY DEF LocalStep, Avail
<1>2. /\ Held[<<"got", p>>] = job[p].got /\ Held[<<"disk", p>>] = job[p].disk
      /\ Held'[<<"got", p>>] = j.got /\ Held'[<<"disk", p>>] = j.disk
      /\ \A x \in Place \ {<<"got", p>>, <<"disk", p>>} : Held'[x] = Held[x]
  BY <1>1, LocalHeld DEF PagingInv
<1>3. \A x \in Place : Held'[x] = Held[x] \/ Held'[x] \notin Resource
  BY <1>2, NullHeld
<1>4. j.got = job[p].got => \A x \in Place : Held'[x] = Held[x]
  BY <1>2
<1> QED  BY <1>1, <1>3, <1>4, DropStep DEF PagingInv

\* balloc_page().
LEMMA LocalDisk ==
    ASSUME PagingInv, NEW p \in Proc, NEW l, NEW j \in Job, NEW d \in freedisk,
           LocalStep(p, l, j), UNCHANGED free, freedisk' = freedisk \ {d},
           job[p].disk = Null, j.disk = d, j.got = job[p].got
    PROVE  Owned(Held, Avail)' /\ (Whole(Held, Avail) => Whole(Held, Avail)')
<1>1. UNCHANGED <<dir, tab, pte>> /\ job' = [job EXCEPT ![p] = j]
  BY DEF LocalStep
<1>2. /\ <<"disk", p>> \in Place /\ Held[<<"disk", p>>] = Null
      /\ Held[<<"got", p>>] = job[p].got
      /\ Held'[<<"got", p>>] = job[p].got /\ Held'[<<"disk", p>>] = d
      /\ \A x \in Place \ {<<"got", p>>, <<"disk", p>>} : Held'[x] = Held[x]
  BY <1>1, LocalHeld DEF PagingInv
<1>3. \A x \in Place \ {<<"disk", p>>} : Held'[x] = Held[x]
  BY <1>2
<1>4. d \in Avail /\ Avail' = Avail \ {d}
  BY AvailLess DEF PagingInv, Avail
<1> QED  BY <1>2, <1>3, <1>4, TakeStep, NullHeld DEF PagingInv

LEMMA FaultStep ==
    ASSUME PagingInv, NEW p \in Proc, NEW v \in Touchable(p), handle_pgfault(p, v)
    PROVE  PagingInv' /\ (Tame /\ OwnedInv => OwnedInv')
<1> DEFINE k == [NoJob EXCEPT !.what = "fault", !.page = v]
<1>1. /\ pc[p] = "user" /\ ~(Present(p, v) /\ pte[p][v].u)
      /\ job' = [job EXCEPT ![p] = k] /\ pc' = [pc EXCEPT ![p] = "kalloc"]
      /\ UNCHANGED <<free, freedisk, mem, disk, dir, tab, pte, sz, stale, files, val, stopped>>
  BY DEF handle_pgfault, At, goto
<1>2. v \in Page /\ v < sz[p] /\ v \in 0 .. MaxPages
  BY Typing, Constants DEF PagingInv, Touchable, Page
<1>3. job[p] = NoJob
  BY <1>1 DEF PagingInv, Jobs, JobOK
<1>4. PICK j : j = k
  OBVIOUS
<1>5. j \in Job /\ j.what = "fault" /\ j.page = v /\ j.child = 0 /\ j.got = Null /\ j.disk = Null
  BY <1>2, <1>4, NoJobTyped DEF Job
<1>6. LocalStep(p, "kalloc", j) /\ "kalloc" \in PC
  BY <1>1, <1>4 DEF LocalStep, PagingInv, TypeOK, PC
<1> HIDE DEF k
<1>7. JobOK("kalloc", j, pte[p], sz[p])
  BY <1>2, <1>5, Constants DEF JobOK, Faults
<1>8. TypeOK' /\ Jobs' /\ Children'
  BY <1>1, <1>5, <1>6, <1>7, LocalInv
<1>9. Owned(Held, Avail)' /\ (Whole(Held, Avail) => Whole(Held, Avail)')
  BY <1>1, <1>3, <1>5, <1>6, LocalSame, NoJobTyped
<1>10. Tame /\ Tidy => Tidy'
  <2>1. Tame /\ Tidy => v # Guard /\ pte[p][v].at \notin Frame
    BY <1>1, <1>2 DEF Tame, Tidy, Touchable, Present
  <2>2. Live(p) /\ "kalloc" \notin {"unused", "embryo"}
    BY <1>1 DEF Live
  <2> QED  BY <1>5, <1>6, <2>1, <2>2, LocalTidy
<1> QED  BY <1>8, <1>9, <1>10 DEF PagingInv, OwnedInv

\* kalloc() that finds no frame.
LEMMA NoFrameStep ==
    ASSUME PagingInv, NEW p \in Proc, pc[p] = "kalloc", pc' = [pc EXCEPT ![p] = "victim"],
           UNCHANGED <<free, job>>,
           UNCHANGED <<freedisk, mem, disk, dir, tab, pte, sz, stale, files, val, stopped>>
    PROVE  PagingInv' /\ (OwnedInv => OwnedInv')
<1>1. PICK j : j = job[p]
  OBVIOUS
<1>2. j \in Job /\ JobOK("kalloc", j, pte[p], sz[p])
  BY <1>1, Typing DEF PagingInv, Jobs
<1>3. LocalStep(p, "victim", j) /\ "victim" \in PC
  BY <1>1 DEF LocalStep, PagingInv, TypeOK, PC
<1>4. JobOK("victim", j, pte[p], sz[p])
  BY <1>2 DEF JobOK
<1>5. TypeOK' /\ Jobs' /\ Children'
  BY <1>1, <1>2, <1>3, <1>4, LocalInv
<1>6. Owned(Held, Avail)' /\ (Whole(Held, Avail) => Whole(Held, Avail)')
  BY <1>1, <1>2, <1>3, LocalSame
<1>7. Tidy => Tidy'
  <2>1. Live(p) /\ "victim" \notin {"unused", "embryo"}
    BY DEF Live
  <2>2. Tidy => /\ j.what = "fault" => j.page # Guard /\ pte[p][j.page].at \notin Frame
                /\ j.what = "copy" => j.pte.at \in Frame /\ (j.page # Guard => j.pte.u = TRUE)
    BY <1>1 DEF Tidy
  <2> QED  BY <1>1, <1>2, <1>3, <2>1, <2>2, LocalTidy
<1> QED  BY <1>5, <1>6, <1>7 DEF PagingInv, OwnedInv

\* panic() and the like change nothing else.
LEMMA StopStep ==
    ASSUME PagingInv, NEW how \in Why, Stop(how)
    PROVE  PagingInv' /\ (OwnedInv => OwnedInv')
<1>1. UNCHANGED <<free, freedisk, mem, disk, dir, tab, pte, sz, stale, pc, job, files, val>>
      /\ stopped' \in Why
  BY DEF Stop
<1>2. TypeOK' /\ Jobs' /\ Children'
  BY <1>1 DEF PagingInv, TypeOK, Jobs, Children, JobOK
<1>3. UNCHANGED <<Held, Avail>>
  BY <1>1 DEF Held, Avail
<1>4. Owned(Held, Avail)' /\ (Whole(Held, Avail) => Whole(Held, Avail)')
  BY <1>3 DEF PagingInv, Owned, Whole
<1>5. Tidy => Tidy'
  BY <1>1 DEF Tidy, Copied, Live, Present
<1> QED  BY <1>2, <1>4, <1>5 DEF PagingInv, OwnedInv

LEMMA KallocStep ==
    ASSUME PagingInv, NEW p \in Proc, kalloc(p) \/ kalloc_again(p)
    PROVE  PagingInv' /\ (OwnedInv => OwnedInv')
<1>1. CASE kalloc(p)
  <2>1. pc[p] = "kalloc" /\ UNCHANGED <<freedisk, mem, disk, dir, tab, pte, sz, stale, files, val, stopped>>
    BY <1>1 DEF kalloc, At
  <2>2. CASE free # {}
    BY <1>1, <2>1, <2>2, TakeFrame DEF kalloc, goto
  <2>3. CASE free = {}
    BY <1>1, <2>1, <2>3, NoFrameStep DEF kalloc, goto
  <2> QED  BY <2>2, <2>3
<1>2. CASE kalloc_again(p)
  <2>1. CASE free = {}
    <3>1. Stop("null frame") /\ "null frame" \in Why
      BY <1>2, <2>1 DEF kalloc_again, Why
    <3> QED  BY <3>1, StopStep
  <2>2. CASE free # {}
    BY <1>2, <2>2, TakeFrame DEF kalloc_again, goto, At
  <2> QED  BY <2>1, <2>2
<1> QED  BY <1>1, <1>2

\* swap_page() up to balloc_page(): the victim is a mapped page of the process.
LEMMA VictimStep ==
    ASSUME PagingInv, NEW p \in Proc, swap_page(p)
    PROVE  PagingInv' /\ (OwnedInv => OwnedInv')
<1> DEFINE found == select_a_victim(p)
<1>1. CASE found = {}
  <2>1. Stop("null pte") /\ "null pte" \in Why
    BY <1>1 DEF swap_page, Why
  <2> QED  BY <2>1, StopStep
<1>2. CASE found # {} /\ freedisk = {}
  <2>1. Stop("balloc: out of blocks") /\ "balloc: out of blocks" \in Why
    BY <1>2 DEF swap_page, Why
  <2> QED  BY <2>1, StopStep
<1>3. CASE found # {} /\ freedisk # {}
  <2>1. pc[p] = "victim"
    BY DEF swap_page, At
  <2>2. PICK d \in freedisk :
           /\ freedisk' = freedisk \ {d}
           /\ job' = [job EXCEPT ![p].victim = Min(found), ![p].disk = d]
           /\ pc' = [pc EXCEPT ![p] = "write"]
           /\ UNCHANGED <<free, mem, disk, dir, tab, pte, sz, stale, files, val, stopped>>
    BY <1>3 DEF swap_page, goto
  <2>3. PICK m : m = Min(found)
    OBVIOUS
  <2>4. m \in Page /\ Present(p, m)
    <3>1. found \in SUBSET Nat
      BY DEF select_a_victim, Page
    <3>2. m \in found
      BY <1>3, <2>3, <3>1, MinIn
    <3> QED  BY <3>2 DEF select_a_victim
  <2> HIDE DEF found
  <2>5. PICK j : j = [job[p] EXCEPT !.victim = m, !.disk = d]
    OBVIOUS
  <2>6. job[p] \in Job /\ JobOK("victim", job[p], pte[p], sz[p]) /\ d \in Disk
    BY <2>1, Typing DEF PagingInv, Jobs, TypeOK
  <2>7. j \in Job /\ SameWork(job[p], j) /\ j.got = job[p].got /\ j.victim = m /\ j.disk = d
    <3>1. d \in Disk \cup {Null}
      BY <2>6
    <3> QED  BY <2>4, <2>5, <2>6, <3>1 DEF Job, SameWork
  <2>8. job[p].got = Null /\ job[p].disk = Null /\ job[p].what \in Faults /\ d # Null
    BY <2>6, Constants DEF JobOK
  <2>9. LocalStep(p, "write", j) /\ "write" \in PC
    BY <2>2, <2>3, <2>5 DEF LocalStep, PagingInv, TypeOK, PC, Job
  <2>10. JobOK("write", j, pte[p], sz[p])
    BY <2>4, <2>6, <2>7, <2>8 DEF JobOK, SameWork, Present, Faults
  <2>11. TypeOK' /\ Jobs' /\ Children'
    BY <2>1, <2>7, <2>9, <2>10, LocalInv DEF SameWork
  <2>12. Owned(Held, Avail)' /\ (Whole(Held, Avail) => Whole(Held, Avail)')
    BY <2>2, <2>7, <2>8, <2>9, LocalDisk
  <2>13. Tidy => Tidy'
    <3>1. Live(p) /\ "write" \notin {"unused", "embryo"}
      BY <2>1 DEF Live
    <3>2. Tidy => /\ j.what = "fault" => j.page # Guard /\ pte[p][j.page].at \notin Frame
                  /\ j.what = "copy" => j.pte.at \in Frame /\ (j.page # Guard => j.pte.u = TRUE)
      BY <2>7 DEF Tidy, SameWork
    <3> QED  BY <2>7, <2>9, <3>1, <3>2, LocalTidy DEF SameWork
  <2> QED  BY <2>11, <2>12, <2>13 DEF PagingInv, OwnedInv
<1> QED  BY <1>1, <1>2, <1>3

\* walkpgdir() of sys_swap() makes a page table.
LEMMA TableHeld ==
    ASSUME TypeOK, NEW q \in Proc, NEW r \in Region, NEW f,
           \A p \in Proc, s \in Region :
              tab'[p][s] = IF p = q /\ s = r THEN f ELSE tab[p][s],
           UNCHANGED <<dir, pte, job>>
    PROVE  /\ <<"tab", q, r>> \in Place /\ Held[<<"tab", q, r>>] = tab[q][r]
           /\ Held'[<<"tab", q, r>>] = f
           /\ \A x \in Place \ {<<"tab", q, r>>} : Held'[x] = Held[x]
<1>2. <<"tab", q, r>> \in Place
  BY PlaceIs
<1>3. Held'[<<"tab", q, r>>] = f
  BY <1>2 DEF Held
<1> DEFINE S == {<<"tab", q, r>>}
<1>4. /\ \A p \in Proc : <<"dir", p>> \in S \/ dir'[p] = dir[p]
      /\ \A p \in Proc : <<"got", p>> \in S \/ job'[p].got = job[p].got
      /\ \A p \in Proc : <<"disk", p>> \in S \/ job'[p].disk = job[p].disk
      /\ \A p \in Proc, s \in Region : <<"tab", p, s>> \in S \/ tab'[p][s] = tab[p][s]
      /\ \A p \in Proc, v \in Page : <<"pte", p, v>> \in S \/ pte'[p][v].at = pte[p][v].at
  OBVIOUS
<1>5. \A x \in Place \ S : Held'[x] = Held[x]
  <2> HIDE DEF S
  <2> QED  BY <1>4, HeldKept
<1> QED  BY <1>2, <1>3, <1>5, PlaceIs

LEMMA TableStep ==
    ASSUME PagingInv, NEW p \in Proc, NEW r \in Region, pc[p] = "user", tab[p][r] = Null, free # {},
           free' = free \ {NextFree}, tab' = [tab EXCEPT ![p][r] = NextFree],
           UNCHANGED <<freedisk, mem, disk, dir, pte, sz, stale, pc, job, files, val, stopped>>
    PROVE  PagingInv' /\ (OwnedInv => OwnedInv')
<1>1. NextFree \in free /\ NextFree \in Frame /\ NextFree # Null
  BY NextFreeIn, Constants DEF PagingInv, TypeOK
<1>2. tab' \in [Proc -> [Region -> Frame \cup {Null}]]
  BY <1>1 DEF PagingInv, TypeOK
<1>3. TypeOK'
  BY <1>2 DEF PagingInv, TypeOK
<1>4. Jobs' /\ Children'
  BY DEF PagingInv, Jobs, Children, JobOK
<1> DEFINE x == <<"tab", p, r>>
<1>5. /\ x \in Place /\ Held[x] = Null /\ Held'[x] = NextFree
      /\ \A y \in Place \ {x} : Held'[y] = Held[y]
  <2>1. TypeOK /\ UNCHANGED <<dir, pte, job>>
    BY DEF PagingInv
  <2>2. PICK f : f = NextFree
    OBVIOUS
  <2>3. \A q \in Proc, s \in Region : tab'[q][s] = IF q = p /\ s = r THEN f ELSE tab[q][s]
    BY <2>2 DEF PagingInv, TypeOK
  <2>4. /\ <<"tab", p, r>> \in Place /\ Held[<<"tab", p, r>>] = tab[p][r]
        /\ Held'[<<"tab", p, r>>] = f
        /\ \A y \in Place \ {<<"tab", p, r>>} : Held'[y] = Held[y]
    BY <2>1, <2>3, TableHeld
  <2> QED  BY <2>2, <2>4
<1>6. NextFree \in Avail /\ Avail' = Avail \ {NextFree}
  BY <1>1, AvailLess DEF PagingInv, Avail
<1> HIDE DEF x
<1>7. Owned(Held, Avail)' /\ (Whole(Held, Avail) => Whole(Held, Avail)')
  BY <1>5, <1>6, TakeStep, NullHeld DEF PagingInv
<1>8. Tidy => Tidy'
  <2>1. \A q \in Proc \ {p}, s \in Region : tab'[q][s] = tab[q][s]
    BY <1>1 DEF PagingInv, TypeOK
  <2>2. tab[p]["near"] # Null => tab'[p]["near"] # Null
    BY <1>1 DEF PagingInv, TypeOK, Region
  <2>3. "near" \in Region
    BY DEF Region
  <2>4. \A q \in Proc : \A n : Copied(q, n) => Copied(q, n)'
    BY <2>1, <2>2, <2>3 DEF Copied
  <2>5. \A q \in Proc : job[q].child # 0 => job[q].child \in Proc
    BY Typing DEF PagingInv, Job, Proc
  <2>6. Live(p) /\ \A q \in Proc : Live(q)' <=> Live(q)
    BY DEF Live
  <2> QED  BY <2>1, <2>2, <2>3, <2>4, <2>5, <2>6 DEF Tidy, Present
<1> QED  BY <1>3, <1>4, <1>7, <1>8 DEF PagingInv, OwnedInv

LEMMA SwapStep ==
    ASSUME PagingInv, NEW p \in Proc, NEW v \in Page, sys_swap(p, v)
    PROVE  PagingInv' /\ (OwnedInv => OwnedInv')
<1>1. pc[p] = "user" /\ Regn(v) \in Region
  BY DEF sys_swap, At, Regn, Region
<1>2. CASE tab[p][Regn(v)] = Null /\ free = {}
  <2>1. Stop("null pte") /\ "null pte" \in Why
    BY <1>2 DEF sys_swap, Why
  <2> QED  BY <2>1, StopStep
<1>3. CASE tab[p][Regn(v)] = Null /\ free # {}
  <2>1. /\ free' = free \ {NextFree} /\ tab' = [tab EXCEPT ![p][Regn(v)] = NextFree]
        /\ UNCHANGED <<freedisk, mem, disk, dir, pte, sz, stale, pc, job, files, val, stopped>>
    BY <1>3 DEF sys_swap
  <2> QED  BY <1>1, <1>3, <2>1, TableStep
<1>4. CASE tab[p][Regn(v)] # Null /\ freedisk = {}
  <2>1. Stop("balloc: out of blocks") /\ "balloc: out of blocks" \in Why
    BY <1>4 DEF sys_swap, Why
  <2> QED  BY <2>1, StopStep
<1>5. CASE tab[p][Regn(v)] # Null /\ freedisk # {}
  <2> DEFINE k(d) == [NoJob EXCEPT !.what = "swap", !.victim = v, !.disk = d]
  <2>1. PICK d \in freedisk :
           /\ freedisk' = freedisk \ {d} /\ job' = [job EXCEPT ![p] = k(d)]
           /\ pc' = [pc EXCEPT ![p] = "write"]
           /\ UNCHANGED <<free, mem, disk, dir, tab, pte, sz, stale, files, val, stopped>>
    BY <1>5 DEF sys_swap, goto
  <2>2. Present(p, v) /\ d \in Disk /\ d # Null
    BY <1>5, Constants DEF sys_swap, PagingInv, TypeOK
  <2>3. PICK j : j = k(d)
    OBVIOUS
  <2>4. job[p] = NoJob
    BY <1>1 DEF PagingInv, Jobs, JobOK
  <2>5. /\ j \in Job /\ j.what = "swap" /\ j.child = 0 /\ j.got = Null
        /\ j.victim = v /\ j.disk = d
    BY <2>2, <2>3, NoJobTyped DEF Job
  <2>6. LocalStep(p, "write", j) /\ "write" \in PC
    BY <2>1, <2>3 DEF LocalStep, PagingInv, TypeOK, PC
  <2> HIDE DEF k
  <2>7. JobOK("write", j, pte[p], sz[p])
    BY <2>2, <2>5 DEF JobOK, Faults, Present
  <2>8. TypeOK' /\ Jobs' /\ Children'
    BY <1>1, <2>5, <2>6, <2>7, LocalInv
  <2>9. Owned(Held, Avail)' /\ (Whole(Held, Avail) => Whole(Held, Avail)')
    BY <2>1, <2>4, <2>5, <2>6, LocalDisk, NoJobTyped
  <2>10. Tidy => Tidy'
    <3>1. Live(p) /\ "write" \notin {"unused", "embryo"}
      BY <1>1 DEF Live
    <3> QED  BY <2>5, <2>6, <3>1, LocalTidy
  <2> QED  BY <2>8, <2>9, <2>10 DEF PagingInv, OwnedInv
<1> QED  BY <1>2, <1>3, <1>4, <1>5

\* A fault on a page without a page table: the frame that was found is dropped.
LEMMA NothingStep ==
    ASSUME PagingInv, NEW p \in Proc, map_nothing(p)
    PROVE  PagingInv' /\ (Tame /\ OwnedInv => OwnedInv')
<1>1. /\ pc[p] = "have" /\ job[p].what = "fault" /\ tab[p][Regn(job[p].page)] = Null
      /\ job' = [job EXCEPT ![p] = NoJob] /\ pc' = [pc EXCEPT ![p] = "user"]
      /\ UNCHANGED <<free, freedisk, mem, disk, dir, tab, pte, sz, stale, files, val, stopped>>
  BY DEF map_nothing, At, Back, goto
<1>2. PICK j : j = NoJob
  OBVIOUS
<1>3. /\ j \in Job /\ j.what = "none" /\ j.page = 0 /\ j.child = 0 /\ j.got = Null
      /\ j.disk = Null
  BY <1>2, NoJobTyped
<1>4. LocalStep(p, "user", j) /\ "user" \in PC
  BY <1>1, <1>2 DEF LocalStep, PagingInv, TypeOK, PC
<1>5. JobOK("user", j, pte[p], sz[p])
  BY <1>2, <1>3 DEF JobOK, Faults
<1>6. TypeOK' /\ Jobs' /\ Children'
  BY <1>1, <1>3, <1>4, <1>5, LocalInv
<1>7. job[p].disk = Null
  BY <1>1 DEF PagingInv, Jobs, JobOK
<1>8. Owned(Held, Avail)'
  BY <1>1, <1>3, <1>4, <1>7, LocalSame
<1>9. Tame /\ Tidy => FALSE
  <2>1. Live(p)
    BY <1>1 DEF Live
  <2>2. Tame => Regn(job[p].page) = "near"
    BY DEF Tame, Regn
  <2> QED  BY <1>1, <2>1, <2>2 DEF Tidy
<1> QED  BY <1>6, <1>8, <1>9 DEF PagingInv, OwnedInv

\* copyuvm() looks up the next page.
LEMMA LookUpStep ==
    ASSUME PagingInv, NEW p \in Proc, copyuvm(p)
    PROVE  PagingInv' /\ (Tame /\ OwnedInv => OwnedInv')
<1> DEFINE v == job[p].page
<1>1. pc[p] = "copy" /\ v < sz[p]
  BY DEF copyuvm, At
<1>2. CASE tab[p][Regn(v)] = Null
  <2>1. Stop("copyuvm: pte should exist") /\ "copyuvm: pte should exist" \in Why
    BY <1>2 DEF copyuvm, Why
  <2> QED  BY <2>1, StopStep DEF OwnedInv
<1>3. CASE tab[p][Regn(v)] # Null
  <2> DEFINE w == IF Swapped(p, v) THEN "in" ELSE "copy"
             k == [job[p] EXCEPT !.what = w, !.pte = pte[p][v]]
  <2>1. /\ job' = [job EXCEPT ![p].what = w, ![p].pte = pte[p][v]]
        /\ pc' = [pc EXCEPT ![p] = "kalloc"]
        /\ UNCHANGED <<free, freedisk, mem, disk, dir, tab, pte, sz, stale, files, val, stopped>>
    BY <1>3 DEF copyuvm, goto
  <2>2. PICK j : j = k
    OBVIOUS
  <2>3. job[p] \in Job /\ JobOK("copy", job[p], pte[p], sz[p]) /\ sz[p] \in 0 .. MaxPages
    BY <1>1, Typing DEF PagingInv, Jobs
  <2>4. v \in Page /\ pte[p][v] \in Pte
    <3>1. v \in 0 .. MaxPages
      BY <2>3 DEF Job
    <3>2. v \in Page
      BY <1>1, <2>3, <3>1, Constants DEF Page
    <3> QED  BY <3>2, Typing DEF PagingInv
  <2>5. w \in {"in", "copy"} /\ (w = "in" <=> pte[p][v].at \in Disk)
    BY DEF Swapped
  <2> HIDE DEF w
  <2>6. /\ j \in Job /\ j.what = w /\ j.pte = pte[p][v] /\ j.page = v
        /\ j.child = job[p].child /\ j.got = job[p].got /\ j.disk = job[p].disk
    BY <2>2, <2>3, <2>4, <2>5 DEF Job
  <2>7. LocalStep(p, "kalloc", j) /\ "kalloc" \in PC
    BY <2>1, <2>2 DEF LocalStep, PagingInv, TypeOK, PC, Job
  <2> HIDE DEF k
  <2>8. j.got = Null /\ j.disk = Null /\ j.child # 0
    BY <2>3, <2>6 DEF JobOK
  <2>9. JobOK("kalloc", j, pte[p], sz[p])
    BY <1>1, <2>3, <2>5, <2>6, <2>8, Constants DEF JobOK, Faults, Job
  <2>10. TypeOK' /\ Jobs' /\ Children'
    BY <1>1, <2>6, <2>7, <2>9, LocalInv
  <2>11. Owned(Held, Avail)' /\ (Whole(Held, Avail) => Whole(Held, Avail)')
    BY <2>1, <2>6, <2>7, LocalSame
  <2>12. Tame /\ Tidy => Tidy'
    <3>1. Live(p) /\ "kalloc" \notin {"unused", "embryo"}
      BY <1>1 DEF Live
    <3> SUFFICES ASSUME Tame, Tidy PROVE Tidy'
      OBVIOUS
    <3>2. pte[p][v].at # Null
      BY <1>1, <2>3, <2>4, <3>1 DEF Tidy, JobOK
    <3>3. w = "copy" => pte[p][v].at \in Frame
      BY <2>4, <2>5, <3>2 DEF Pte
    <3>4. w = "copy" /\ v # Guard => pte[p][v].u = TRUE
      BY <2>4, <3>3 DEF Tidy, Present
    <3> QED  BY <2>5, <2>6, <2>7, <3>1, <3>3, <3>4, LocalTidy
  <2> QED  BY <2>10, <2>11, <2>12 DEF PagingInv, OwnedInv
<1> QED  BY <1>2, <1>3

\* Loads and stores, growproc() and context switches move no page.
LEMMA UserStep ==
    ASSUME PagingInv, NEW p \in Proc,
           \/ \E v \in Touchable(p), write \in BOOLEAN : Touch(p, v, write)
           \/ switchuvm(p) \/ sbrk(p)
    PROVE  PagingInv' /\ (Tame /\ OwnedInv => OwnedInv')
<1>1. /\ pc[p] = "user"
      /\ UNCHANGED <<free, freedisk, disk, dir, tab, pc, job, files, stopped>>
  BY DEF Touch, switchuvm, sbrk, At
<1>2. /\ pte' \in [Proc -> [Page -> Pte]] /\ mem' \in [Frame -> Data]
      /\ val' \in [Proc -> [Page -> Data]]
      /\ \A q \in Proc, w \in Page : pte'[q][w].at = pte[q][w].at /\ pte'[q][w].u = pte[q][w].u
  <2>1. CASE UNCHANGED <<pte, mem, val>>
    BY <2>1 DEF PagingInv, TypeOK
  <2>2. ASSUME NEW v \in Touchable(p), NEW write \in BOOLEAN, Touch(p, v, write)
        PROVE  /\ pte' \in [Proc -> [Page -> Pte]] /\ mem' \in [Frame -> Data]
               /\ val' \in [Proc -> [Page -> Data]]
               /\ \A q \in Proc, w \in Page :
                    pte'[q][w].at = pte[q][w].at /\ pte'[q][w].u = pte[q][w].u
    <3>1. v \in Page /\ sz[p] \in 0 .. MaxPages
      BY Typing, Constants DEF PagingInv, Touchable, Page
    <3>2. pte' = pte \/ pte' = [pte EXCEPT ![p][v].a = ABit]
      BY <2>2 DEF Touch
    <3>3. /\ pte' \in [Proc -> [Page -> Pte]]
          /\ \A q \in Proc, w \in Page :
                pte'[q][w].at = pte[q][w].at /\ pte'[q][w].u = pte[q][w].u
      <4>1. CASE pte' = pte
        BY <4>1 DEF PagingInv, TypeOK
      <4>2. CASE pte' = [pte EXCEPT ![p][v].a = ABit]
        <5>1. PICK e : e = [pte[p][v] EXCEPT !.a = ABit]
          OBVIOUS
        <5>2. pte[p][v] \in Pte
          BY <3>1, Typing DEF PagingInv
        <5>3. e \in Pte /\ e.at = pte[p][v].at /\ e.u = pte[p][v].u
          BY <5>1, <5>2, Constants DEF Pte
        <5>4. pte' = [pte EXCEPT ![p] = [pte[p] EXCEPT ![v] = e]]
          BY <4>2, <5>1
        <5> QED  BY <3>1, <5>3, <5>4 DEF PagingInv, TypeOK
      <4> QED  BY <3>2, <4>1, <4>2
    <3>4. p \in Data
      BY DEF Data
    <3>5. mem' \in [Frame -> Data]
      <4>1. \/ mem' = mem
            \/ mem' = [mem EXCEPT ![stale[p][v]] = p]
            \/ mem' = [mem EXCEPT ![pte[p][v].at] = p]
        BY <2>2 DEF Touch
      <4>2. mem \in [Frame -> Data]
        BY DEF PagingInv, TypeOK
      <4> QED  BY <3>4, <4>1, <4>2
    <3>6. val' \in [Proc -> [Page -> Data]]
      <4>1. val' = val \/ val' = [val EXCEPT ![p][v] = p]
        BY <2>2 DEF Touch
      <4>2. [val[p] EXCEPT ![v] = p] \in [Page -> Data]
        BY <3>1, <3>4 DEF PagingInv, TypeOK
      <4>3. val' = val \/ val' = [val EXCEPT ![p] = [val[p] EXCEPT ![v] = p]]
        BY <4>1
      <4> QED  BY <4>2, <4>3 DEF PagingInv, TypeOK
    <3> QED  BY <3>3, <3>5, <3>6
  <2>3. CASE switchuvm(p) \/ sbrk(p)
    BY <2>1, <2>3 DEF switchuvm, sbrk
  <2> QED  BY <2>2, <2>3
<1>3. /\ sz' \in [Proc -> 0 .. MaxPages] /\ stale' \in [Proc -> [Page -> Frame \cup {Null}]]
      /\ \A q \in Proc : sz'[q] = sz[q] \/ (q = p /\ "grow" \in Ops /\ sz'[q] = sz[q] + 1)
  <2>1. CASE \E v \in Touchable(p), write \in BOOLEAN : Touch(p, v, write)
    BY <2>1 DEF Touch, PagingInv, TypeOK
  <2>2. CASE switchuvm(p)
    BY <2>2 DEF switchuvm, PagingInv, TypeOK, NoStale
  <2>3. CASE sbrk(p)
    BY <2>3, Constants DEF sbrk, PagingInv, TypeOK
  <2> QED  BY <2>1, <2>2, <2>3
<1>4. TypeOK'
  BY <1>1, <1>2, <1>3 DEF PagingInv, TypeOK
<1>5. job[p] = NoJob
  BY <1>1 DEF PagingInv, Jobs, JobOK
<1>6. ASSUME NEW q \in Proc PROVE JobOK(pc[q], job[q], pte'[q], sz'[q])
  <2>1. JobOK(pc[q], job[q], pte[q], sz[q]) /\ job[q] \in Job /\ sz[q] \in 0 .. MaxPages
    BY Typing DEF PagingInv, Jobs
  <2>2. job[q].page < sz[q] => job[q].page \in Page
    BY <2>1, Constants DEF Job, Page
  <2>3. /\ pte'[q][job[q].victim].at = pte[q][job[q].victim].at
        /\ job[q].page < sz[q] => pte'[q][job[q].page].at = pte[q][job[q].page].at
    BY <1>2, <2>1, <2>2 DEF Job
  <2>4. CASE q = p
    BY <1>1, <1>5, <2>4, NoJobTyped DEF JobOK, Faults
  <2>5. CASE q # p
    BY <1>3, <2>1, <2>3, <2>5 DEF JobOK, Faults
  <2> QED  BY <2>4, <2>5
<1>7. Jobs' /\ Children'
  BY <1>1, <1>6 DEF PagingInv, Jobs, Children
<1>8. \A x \in Place : Held'[x] = Held[x]
  <2>1. \A x \in Place \ {} : Held'[x] = Held[x]
    BY <1>1, <1>2, HeldKept
  <2> QED  BY <2>1
<1>9. Owned(Held, Avail)' /\ (Whole(Held, Avail) => Whole(Held, Avail)')
  <2>1. UNCHANGED Avail
    BY <1>1 DEF Avail
  <2> QED  BY <1>8, <2>1, DropStep DEF PagingInv
<1>10. Tame /\ Tidy => Tidy'
  <2> SUFFICES ASSUME Tame, Tidy PROVE Tidy'
    OBVIOUS
  <2>1. \A q \in Proc : \A n : Copied(q, n) <=> Copied(q, n)'
    BY <1>1, <1>2 DEF Copied
  <2>2. \A q \in Proc : job[q].child # 0 => job[q].child \in Proc
    BY Typing DEF PagingInv, Job, Proc
  <2>3. \A q \in Proc : Live(q)' <=> Live(q)
    BY <1>1 DEF Live
  <2>4. \A q \in Proc : sz'[q] >= sz[q] /\ ("fork" \in Ops => sz'[q] = sz[q])
    BY <1>3, Typing DEF PagingInv, Tame
  <2>5. \A q \in Proc : Live(q) => sz'[q] >= 3
    BY <1>3, <2>4, Typing DEF PagingInv, Tidy
  <2>6. ASSUME NEW q \in Proc, job[q].what = "fault"
        PROVE  job[q].page # Guard /\ pte'[q][job[q].page].at \notin Frame
    <3>1. job[q].page < sz[q] /\ job[q] \in Job /\ sz[q] \in 0 .. MaxPages
      BY <2>6, Typing DEF PagingInv, Jobs, JobOK, Faults
    <3>2. job[q].page \in Page
      BY <3>1, Constants DEF Job, Page
    <3>3. job[q].page # Guard /\ pte[q][job[q].page].at \notin Frame
      BY <2>6 DEF Tidy
    <3>4. pte'[q][job[q].page].at = pte[q][job[q].page].at
      BY <1>2, <3>2
    <3> QED  BY <3>3, <3>4
  <2>7. /\ \A q \in Proc : pc'[q] = "unused" =>
              dir'[q] = Null /\ (\A r \in Region : tab'[q][r] = Null) /\ Copied(q, 0)'
        /\ \A q \in Proc : Live(q)' => tab'[q]["near"] # Null /\ sz'[q] >= 3
    BY <1>1, <2>1, <2>3, <2>5 DEF Tidy
  <2>8. \A q \in Proc, v \in Page :
           pte'[q][v].at \in Frame /\ v # Guard => pte'[q][v].u = TRUE
    BY <1>2 DEF Tidy, Present
  <2>9. "fork" \in Ops =>
           \A q \in Proc, v \in Page : Live(q)' /\ v < sz'[q] => pte'[q][v].at # Null
    <3>1. "fork" \in Ops => \A q \in Proc, v \in Page : Live(q) /\ v < sz[q] => pte[q][v].at # Null
      BY DEF Tidy
    <3>2. "fork" \in Ops => \A q \in Proc : sz'[q] = sz[q]
      BY <2>4
    <3>3. \A q \in Proc, v \in Page : pte'[q][v].at = pte[q][v].at
      BY <1>2
    <3> QED  BY <2>3, <3>1, <3>2, <3>3
  <2>10. \A q \in Proc : job[q].child # 0 => Copied(job[q].child, job[q].page)'
    BY <1>1, <2>1, <2>2 DEF Tidy
  <2>11. \A q \in Proc : job[q].what = "copy" =>
            job[q].pte.at \in Frame /\ (job[q].page # Guard => job[q].pte.u = TRUE)
    BY DEF Tidy
  <2> QED  BY <1>1, <2>6, <2>7, <2>8, <2>9, <2>10, <2>11 DEF Tidy, Present
<1> QED  BY <1>4, <1>7, <1>9, <1>10 DEF PagingInv, OwnedInv

-----------------------------------------------------------------------------
(* Steps that change an entry: what is in a local variable goes there.     *)

EntryChange(p, q, v, a, T) ==
    /\ dir' = dir
    /\ \A o \in Proc, w \in Page : pte'[o][w].at = IF o = q /\ w = v THEN a ELSE pte[o][w].at
    /\ \A o \in Proc \ {p} : job'[o].got = job[o].got /\ job'[o].disk = job[o].disk
    /\ \A o \in Proc, r \in Region : <<"tab", o, r>> \in T \/ tab'[o][r] = tab[o][r]

LEMMA EntryHeld ==
    ASSUME NEW p \in Proc, NEW q \in Proc, NEW v \in Page, NEW a, NEW T,
           EntryChange(p, q, v, a, T)
    PROVE  /\ Held'[<<"pte", q, v>>] = a
           /\ Held'[<<"got", p>>] = job'[p].got /\ Held'[<<"disk", p>>] = job'[p].disk
           /\ \A x \in Place \ ({<<"pte", q, v>>, <<"got", p>>, <<"disk", p>>} \cup T) :
                 Held'[x] = Held[x]
<1>1. /\ <<"pte", q, v>> \in Place /\ <<"got", p>> \in Place /\ <<"disk", p>> \in Place
  BY PlaceIs
<1>2. /\ Held'[<<"pte", q, v>>] = a
      /\ Held'[<<"got", p>>] = job'[p].got /\ Held'[<<"disk", p>>] = job'[p].disk
  <2>1. pte'[q][v].at = a
    BY DEF EntryChange
  <2> QED  BY <1>1, <2>1 DEF Held
<1> DEFINE S == {<<"pte", q, v>>, <<"got", p>>, <<"disk", p>>} \cup T
<1>3. /\ \A o \in Proc : <<"dir", o>> \in S \/ dir'[o] = dir[o]
      /\ \A o \in Proc : <<"got", o>> \in S \/ job'[o].got = job[o].got
      /\ \A o \in Proc : <<"disk", o>> \in S \/ job'[o].disk = job[o].disk
      /\ \A o \in Proc, r \in Region : <<"tab", o, r>> \in S \/ tab'[o][r] = tab[o][r]
      /\ \A o \in Proc, w \in Page : <<"pte", o, w>> \in S \/ pte'[o][w].at = pte[o][w].at
  BY DEF EntryChange
<1>4. \A x \in Place \ S : Held'[x] = Held[x]
  <2> HIDE DEF S
  <2> QED  BY <1>3, HeldKept
<1> QED  BY <1>2, <1>4

EntryStep(p, q, v, e, l, j) ==
    /\ pte' = [pte EXCEPT ![q][v] = e]
    /\ job' = [job EXCEPT ![p] = j] /\ pc' = [pc EXCEPT ![p] = l]
    /\ free' \subseteq Frame /\ freedisk' \subseteq Disk
    /\ UNCHANGED <<dir, sz, val, stopped>>

LEMMA EntryIs ==
    ASSUME TypeOK, NEW p \in Proc, NEW q \in Proc, NEW v \in Page, NEW e, NEW l, NEW j,
           EntryStep(p, q, v, e, l, j)
    PROVE  /\ pte'[q][v] = e
           /\ \A o \in Proc, w \in Page : o # q \/ w # v => pte'[o][w] = pte[o][w]
           /\ \A o \in Proc : o # q => pte'[o] = pte[o]
           /\ job'[p] = j /\ pc'[p] = l
           /\ \A o \in Proc \ {p} : job'[o] = job[o] /\ pc'[o] = pc[o]
<1>1. pte' = [pte EXCEPT ![q][v] = e] /\ pte \in [Proc -> [Page -> Pte]]
  BY DEF EntryStep, TypeOK
<1>2. job' = [job EXCEPT ![p] = j] /\ pc' = [pc EXCEPT ![p] = l]
      /\ job \in [Proc -> Job] /\ pc \in [Proc -> PC]
  BY DEF EntryStep, TypeOK, Job
<1>3. \A o \in Proc : o # q => pte'[o] = pte[o]
  BY <1>1
<1>4. pte'[q] = [pte[q] EXCEPT ![v] = e]
  BY <1>1
<1>5. pte'[q][v] = e /\ \A w \in Page : w # v => pte'[q][w] = pte[q][w]
  BY <1>1, <1>4
<1> QED  BY <1>2, <1>3, <1>5

LEMMA EntryInv ==
    ASSUME PagingInv, NEW p \in Proc, NEW q \in Proc, NEW v \in Page, NEW e \in Pte,
           NEW l \in PC, NEW j \in Job, EntryStep(p, q, v, e, l, j),
           q = p \/ pc[q] = "embryo", pc[p] # "embryo",
           mem' \in [Frame -> Data], disk' \in [Disk -> Data], files' \in 0 .. NFILE,
           tab' \in [Proc -> [Region -> Frame \cup {Null}]],
           stale' \in [Proc -> [Page -> Frame \cup {Null}]],
           JobOK(l, j, pte'[p], sz[p]), j.child \in {0, job[p].child}
    PROVE  TypeOK' /\ Jobs' /\ Children'
<1>1. /\ \A o \in Proc : o # q => pte'[o] = pte[o]
      /\ job'[p] = j /\ pc'[p] = l
      /\ \A o \in Proc \ {p} : job'[o] = job[o] /\ pc'[o] = pc[o]
      /\ UNCHANGED sz
  <2>1. UNCHANGED sz /\ TypeOK
    BY DEF PagingInv, EntryStep
  <2> QED  BY <2>1, EntryIs
<1>2. TypeOK'
  <2>1. pte' \in [Proc -> [Page -> Pte]]
    <3>1. [pte[q] EXCEPT ![v] = e] \in [Page -> Pte]
      BY DEF PagingInv, TypeOK
    <3>2. pte' = [pte EXCEPT ![q] = [pte[q] EXCEPT ![v] = e]]
      BY DEF EntryStep
    <3> QED  BY <3>1, <3>2 DEF PagingInv, TypeOK
  <2>2. job' \in [Proc -> Job] /\ pc' \in [Proc -> PC]
    BY DEF EntryStep, PagingInv, TypeOK, Job
  <2> QED  BY <2>1, <2>2 DEF EntryStep, PagingInv, TypeOK, Job
<1>3. ASSUME NEW o \in Proc PROVE JobOK(pc'[o], job'[o], pte'[o], sz'[o])
  <2>1. CASE o = p
    BY <1>1, <2>1
  <2>2. CASE o # p /\ o # q
    BY <1>1, <2>2 DEF PagingInv, Jobs
  <2>3. CASE o # p /\ o = q
    <3>1. JobOK("embryo", job[o], pte[o], sz[o]) /\ pc'[o] = "embryo" /\ job'[o] = job[o]
      BY <1>1, <2>3 DEF PagingInv, Jobs
    <3>2. job[o] = NoJob
      BY <3>1 DEF JobOK
    <3> QED  BY <3>1, <3>2, NoJobTyped DEF JobOK, Faults
  <2> QED  BY <2>1, <2>2, <2>3
<1>4. \A o \in Proc : job'[o].child \in {0, job[o].child}
  BY <1>1
<1>5. ASSUME NEW o \in Proc, job'[o].child # 0 PROVE pc'[job'[o].child] = "embryo"
  <2>1. job'[o].child = job[o].child /\ pc[job[o].child] = "embryo"
    BY <1>4, <1>5 DEF PagingInv, Children
  <2>2. job[o].child \in Proc
    BY <1>5, <2>1, Typing DEF PagingInv, Job, Proc
  <2> QED  BY <1>1, <2>1, <2>2
<1>6. \A o, r \in Proc : job'[o].child = job'[r].child /\ o # r => job'[o].child = 0
  BY <1>4 DEF PagingInv, Children
<1> QED  BY <1>2, <1>3, <1>5, <1>6 DEF Jobs, Children

\* The entry takes what is in got or in disk, and what it had is lost or free.
LEMMA EntryOwned ==
    ASSUME PagingInv, NEW p \in Proc, NEW q \in Proc, NEW v \in Page, NEW e, NEW l, NEW j \in Job,
           EntryStep(p, q, v, e, l, j), UNCHANGED tab,
           \/ e.at = job[p].got /\ j.got = Null /\ j.disk = job[p].disk
           \/ e.at = job[p].disk /\ j.disk = Null /\ j.got = job[p].got,
           Avail' = Avail \/ Avail' = Avail \cup {pte[q][v].at}
    PROVE  /\ Owned(Held, Avail)'
           /\ Whole(Held, Avail) /\ (pte[q][v].at \notin Resource \/ Avail' = Avail \cup {pte[q][v].at})
                => Whole(Held, Avail)'
<1> DEFINE x == <<"pte", q, v>>
           g == <<"got", p>>
           d == <<"disk", p>>
<1>1. x \in Place /\ g \in Place /\ d \in Place /\ x # g /\ x # d /\ g # d
      /\ Held[x] = pte[q][v].at /\ Held[g] = job[p].got /\ Held[d] = job[p].disk
  BY PlaceIs
<1>2. /\ Held'[x] = e.at /\ Held'[g] = j.got /\ Held'[d] = j.disk
      /\ \A y \in Place \ {x, g, d} : Held'[y] = Held[y]
  <2>1. /\ pte'[q][v] = e
        /\ \A o \in Proc, w \in Page : o # q \/ w # v => pte'[o][w] = pte[o][w]
        /\ job'[p] = j
        /\ \A o \in Proc \ {p} : job'[o] = job[o]
    BY EntryIs DEF PagingInv
  <2>2. PICK a : a = e.at
    OBVIOUS
  <2>3. \A o \in Proc, w \in Page : pte'[o][w].at = IF o = q /\ w = v THEN a ELSE pte[o][w].at
    BY <2>1, <2>2
  <2>4. \A o \in Proc \ {p} : job'[o].got = job[o].got /\ job'[o].disk = job[o].disk
    BY <2>1
  <2> PICK T : T = {}
    OBVIOUS
  <2>5. \A o \in Proc, r \in Region : <<"tab", o, r>> \in T \/ tab'[o][r] = tab[o][r]
    OBVIOUS
  <2>6. EntryChange(p, q, v, a, T)
    BY <2>3, <2>4, <2>5 DEF EntryStep, EntryChange
  <2>7. /\ Held'[<<"pte", q, v>>] = a
        /\ Held'[<<"got", p>>] = job'[p].got /\ Held'[<<"disk", p>>] = job'[p].disk
        /\ \A y \in Place \ ({<<"pte", q, v>>, <<"got", p>>, <<"disk", p>>} \cup T) :
              Held'[y] = Held[y]
    BY <2>6, EntryHeld
  <2> QED  BY <2>1, <2>2, <2>7
<1> HIDE DEF x, g, d
<1>3. Owned(Held, Avail) /\ (Avail' = Avail \/ Avail' = Avail \cup {Held[x]})
  BY <1>1 DEF PagingInv
<1>4. CASE e.at = job[p].got /\ j.got = Null /\ j.disk = job[p].disk
  <2>1. /\ Held'[x] = Held[g] /\ Held'[g] \notin Resource
        /\ \A y \in Place \ {x, g} : Held'[y] = Held[y]
    BY <1>1, <1>2, <1>4, NullHeld
  <2> QED  BY <1>1, <1>3, <2>1, MoveStep
<1>5. CASE e.at = job[p].disk /\ j.disk = Null /\ j.got = job[p].got
  <2>1. /\ Held'[x] = Held[d] /\ Held'[d] \notin Resource
        /\ \A y \in Place \ {x, d} : Held'[y] = Held[y]
    BY <1>1, <1>2, <1>5, NullHeld
  <2> QED  BY <1>1, <1>3, <2>1, MoveStep
<1> QED  BY <1>4, <1>5

\* A process that changes an entry of its own.
LEMMA EntryTidy ==
    ASSUME PagingInv, Tidy, NEW p \in Proc, NEW v \in Page, NEW e \in Pte, NEW l \in PC,
           NEW j \in Job, EntryStep(p, p, v, e, l, j), UNCHANGED tab,
           Live(p), l \notin {"unused", "embryo"},
           e.at # Null, e.at \in Frame /\ v # Guard => e.u = TRUE,
           j.what = "fault" => j.page # Guard /\ pte'[p][j.page].at \notin Frame,
           j.what = "copy" => j.pte.at \in Frame /\ (j.page # Guard => j.pte.u = TRUE),
           j.child = 0 \/ (j.child = job[p].child /\ j.page = job[p].page)
    PROVE  Tidy'
<1>1. /\ pte'[p][v] = e
      /\ \A o \in Proc, w \in Page : o # p \/ w # v => pte'[o][w] = pte[o][w]
      /\ \A o \in Proc : o # p => pte'[o] = pte[o]
      /\ job'[p] = j /\ pc'[p] = l
      /\ \A o \in Proc \ {p} : job'[o] = job[o] /\ pc'[o] = pc[o]
  BY EntryIs DEF PagingInv
<1>2. UNCHANGED <<dir, tab, sz>>
  BY DEF EntryStep
<1>3. \A o \in Proc : Live(o)' <=> Live(o)
  BY <1>1 DEF Live
<1>4. \A o \in Proc : o # p => \A n : Copied(o, n)' <=> Copied(o, n)
  BY <1>1, <1>2 DEF Copied
<1>5. \A o \in Proc : pc'[o] = "unused" => o # p /\ pc[o] = "unused"
  BY <1>1
<1>6. \A o \in Proc : pc'[o] = "unused" =>
         dir'[o] = Null /\ (\A r \in Region : tab'[o][r] = Null) /\ Copied(o, 0)'
  BY <1>2, <1>4, <1>5 DEF Tidy
<1>7. \A o \in Proc : Live(o)' => tab'[o]["near"] # Null /\ sz'[o] >= 3
  BY <1>2, <1>3 DEF Tidy
<1>8. \A o \in Proc, w \in Page : pte'[o][w].at \in Frame /\ w # Guard => pte'[o][w].u = TRUE
  <2> SUFFICES ASSUME NEW o \in Proc, NEW w \in Page
               PROVE  pte'[o][w].at \in Frame /\ w # Guard => pte'[o][w].u = TRUE
    OBVIOUS
  <2>1. CASE o = p /\ w = v
    BY <1>1, <2>1
  <2>2. CASE o # p \/ w # v
    BY <1>1, <2>2 DEF Tidy, Present
  <2> QED  BY <2>1, <2>2
<1>9. "fork" \in Ops => \A o \in Proc, w \in Page : Live(o)' /\ w < sz'[o] => pte'[o][w].at # Null
  <2>1. "fork" \in Ops => \A o \in Proc, w \in Page : Live(o) /\ w < sz[o] => pte[o][w].at # Null
    BY DEF Tidy
  <2>2. \A o \in Proc, w \in Page : pte'[o][w].at = pte[o][w].at \/ pte'[o][w].at # Null
    BY <1>1
  <2> QED  BY <1>2, <1>3, <2>1, <2>2
<1>10. ASSUME NEW o \in Proc
       PROVE  /\ job'[o].what = "fault" =>
                    job'[o].page # Guard /\ pte'[o][job'[o].page].at \notin Frame
              /\ job'[o].what = "copy" =>
                    job'[o].pte.at \in Frame /\ (job'[o].page # Guard => job'[o].pte.u = TRUE)
  <2>1. CASE o = p
    BY <1>1, <2>1
  <2>2. CASE o # p
    <3>1. job'[o] = job[o] /\ pte'[o] = pte[o]
      BY <1>1, <2>2
    <3> QED  BY <3>1 DEF Tidy
  <2> QED  BY <2>1, <2>2
<1>11. (\A o \in Proc : job[o].child # 0 => Copied(job[o].child, job[o].page))'
  <2>1. ASSUME NEW o \in Proc, job'[o].child # 0
        PROVE  /\ job'[o].child = job[o].child /\ job'[o].page = job[o].page
               /\ job[o].child \in Proc \ {p} /\ Copied(job[o].child, job[o].page)
    <3>1. job'[o].child = job[o].child /\ job'[o].page = job[o].page
      BY <1>1, <2>1
    <3>2. pc[job[o].child] = "embryo" /\ job[o].child \in Proc
      BY <2>1, <3>1, Typing DEF PagingInv, Children, Job, Proc
    <3>3. job[o].child # p
      BY <3>2 DEF Live
    <3> QED  BY <2>1, <3>1, <3>2, <3>3 DEF Tidy
  <2>2. \A o \in Proc \ {p} : \A n : Copied(o, n) => Copied(o, n)'
    BY <1>4
  <2>3. ASSUME NEW o \in Proc, job'[o].child # 0
        PROVE  /\ \A w \in Page : (w < job'[o].page) <=> (pte'[job'[o].child][w].at # Null)
               /\ job'[o].page > 0 => tab'[job'[o].child]["near"] # Null
    <3>1. PICK c, n : c = job[o].child /\ n = job[o].page
      OBVIOUS
    <3>2. c = job'[o].child /\ n = job'[o].page /\ c \in Proc \ {p} /\ Copied(c, n)
      BY <2>1, <2>3, <3>1
    <3>3. Copied(c, n)'
      BY <2>2, <3>2
    <3> QED  BY <3>2, <3>3 DEF Copied
  <2> QED  BY <2>3 DEF Copied
<1> QED  BY <1>6, <1>7, <1>8, <1>9, <1>10, <1>11 DEF Tidy, Present

\* The victim is written to its disk page and its frame is freed.
LEMMA WriteStep ==
    ASSUME PagingInv, NEW p \in Proc, swap_page_from_pte(p)
    PROVE  PagingInv' /\ (Tame /\ OwnedInv => OwnedInv')
<1>1. pc[p] = "write"
  BY DEF swap_page_from_pte, At
<1>2. CASE files = NFILE
  <2>1. Stop("no slot for files on store") /\ "no slot for files on store" \in Why
    BY <1>2 DEF swap_page_from_pte, Why
  <2> QED  BY <2>1, StopStep DEF OwnedInv
<1>3. CASE files # NFILE
  <2> DEFINE f == pte[p][job[p].victim].at
  <2>1. PICK v : v = job[p].victim
    OBVIOUS
  <2>2. PICK d : d = job[p].disk
    OBVIOUS
  <2>3. PICK e : e = Entry(d, FALSE, FALSE)
    OBVIOUS
  <2>4. job[p] \in Job /\ JobOK("write", job[p], pte[p], sz[p])
    BY <1>1, Typing DEF PagingInv, Jobs
  <2>5. v \in Page /\ d \in Disk /\ d # Null /\ job[p].got = Null /\ pte[p][v].at \in Frame
        /\ job[p].what # "none"
    BY <2>1, <2>2, <2>4 DEF Job, JobOK
  <2>6. e \in Pte /\ e.at = d /\ e.u = FALSE
    BY <2>3, <2>5 DEF Entry, Pte
  <2>7. /\ files' = files + 1
        /\ disk' = [disk EXCEPT ![d] = mem[pte[p][v].at]]
        /\ pte' = [pte EXCEPT ![p][v] = e]
        /\ free' = free \cup {pte[p][v].at}
        /\ mem' = [mem EXCEPT ![pte[p][v].at] = Junk]
        /\ UNCHANGED <<freedisk, dir, tab, sz, val, stopped>>
    BY <1>3, <2>1, <2>2, <2>3 DEF swap_page_from_pte, Written, Evicted
  <2>8. \/ job[p].what = "swap" /\ job' = [job EXCEPT ![p] = NoJob]
           /\ pc' = [pc EXCEPT ![p] = "user"]
        \/ job[p].what # "swap" /\ job' = [job EXCEPT ![p].victim = 0, ![p].disk = Null]
           /\ pc' = [pc EXCEPT ![p] = "again"]
    BY <1>3 DEF swap_page_from_pte, Back, goto
  <2>9. stale' \in [Proc -> [Page -> Frame \cup {Null}]]
    <3>1. stale \in [Proc -> [Page -> Frame \cup {Null}]]
      BY DEF PagingInv, TypeOK
    <3>2. CASE Flushed(p)
      BY <1>3, <3>1, <3>2 DEF swap_page_from_pte, NoStale
    <3>3. CASE ~Flushed(p)
      <4>1. \E k \in {Null} \cup IF TLB /\ pte[p][v].u THEN {pte[p][v].at} ELSE {} :
               stale' = [stale EXCEPT ![p][v] = k]
        BY <1>3, <2>1, <3>3 DEF swap_page_from_pte
      <4>2. PICK k : k \in Frame \cup {Null} /\ stale' = [stale EXCEPT ![p][v] = k]
        BY <2>5, <4>1
      <4>3. [stale[p] EXCEPT ![v] = k] \in [Page -> Frame \cup {Null}]
        BY <2>5, <3>1, <4>2
      <4>4. stale' = [stale EXCEPT ![p] = [stale[p] EXCEPT ![v] = k]]
        BY <4>2
      <4> QED  BY <3>1, <4>3, <4>4
    <3> QED  BY <3>2, <3>3
  <2>10. /\ disk' \in [Disk -> Data] /\ mem' \in [Frame -> Data] /\ files' \in 0 .. NFILE
         /\ tab' \in [Proc -> [Region -> Frame \cup {Null}]]
         /\ free' \subseteq Frame /\ freedisk' \subseteq Disk
    <3>1. mem[pte[p][v].at] \in Data /\ Junk \in Data
      BY <2>5 DEF PagingInv, TypeOK, Data
    <3>2. files' \in 0 .. NFILE
      BY <1>3, <2>7, Constants DEF PagingInv, TypeOK
    <3> QED  BY <2>5, <2>7, <3>1, <3>2 DEF PagingInv, TypeOK
  <2>11. PICK l \in PC, j \in Job :
           /\ EntryStep(p, p, v, e, l, j) /\ JobOK(l, j, pte'[p], sz[p])
           /\ j.child \in {0, job[p].child} /\ j.got = Null /\ j.disk = Null
           /\ l \notin {"unused", "embryo"}
           /\ j.what = "none" \/ SameWork(job[p], j)
           /\ j.child = 0 \/ (j.child = job[p].child /\ j.page = job[p].page)
    <3>1. CASE job[p].what = "swap"
      <4>1. job' = [job EXCEPT ![p] = NoJob] /\ pc' = [pc EXCEPT ![p] = "user"]
        BY <2>8, <3>1
      <4>2. PICK j : j = NoJob
        OBVIOUS
      <4>3. EntryStep(p, p, v, e, "user", j) /\ "user" \in PC
        BY <2>7, <2>10, <4>1, <4>2 DEF EntryStep, PC
      <4>4. /\ j \in Job /\ j.what = "none" /\ j.page = 0 /\ j.child = 0 /\ j.got = Null
            /\ j.disk = Null
        BY <4>2, NoJobTyped
      <4>5. JobOK("user", j, pte'[p], sz[p])
        BY <4>2, <4>4 DEF JobOK, Faults
      <4> QED  BY <4>3, <4>4, <4>5
    <3>2. CASE job[p].what # "swap"
      <4>1. /\ job' = [job EXCEPT ![p].victim = 0, ![p].disk = Null]
            /\ pc' = [pc EXCEPT ![p] = "again"]
        BY <2>8, <3>2
      <4>2. PICK j : j = [job[p] EXCEPT !.victim = 0, !.disk = Null]
        OBVIOUS
      <4>3. EntryStep(p, p, v, e, "again", j) /\ "again" \in PC
        BY <2>7, <2>10, <4>1, <4>2 DEF EntryStep, PC, PagingInv, TypeOK
      <4>4. j \in Job /\ SameWork(job[p], j) /\ j.got = Null /\ j.disk = Null
        BY <2>4, <2>5, <4>2, Constants DEF Job, SameWork
      <4>5. job[p].what \in Faults
        BY <2>4, <2>5, <3>2 DEF Job, Faults
      <4>6. job[p].what = "in" => pte'[p][job[p].page].at \in Disk
        <5>1. \A w \in Page : pte'[p][w].at = pte[p][w].at \/ pte'[p][w].at \in Disk
          BY <2>5, <2>6, <4>3, EntryIs DEF PagingInv
        <5>2. job[p].page < sz[p] /\ sz[p] \in 0 .. MaxPages /\ job[p].page \in 0 .. MaxPages
          BY <2>4, <4>5, Typing DEF PagingInv, Job, JobOK
        <5>3. job[p].page \in Page
          BY <5>2, Constants DEF Page
        <5> QED  BY <2>4, <5>1, <5>3 DEF JobOK
      <4>7. JobOK("again", j, pte'[p], sz[p])
        BY <2>4, <4>4, <4>5, <4>6 DEF JobOK, SameWork, Faults
      <4> QED  BY <4>3, <4>4, <4>7 DEF SameWork
    <3> QED  BY <3>1, <3>2
  <2>12. Live(p) /\ pc[p] # "embryo"
    BY <1>1 DEF Live
  <2>13. TypeOK' /\ Jobs' /\ Children'
    BY <2>5, <2>6, <2>9, <2>10, <2>11, <2>12, EntryInv
  <2>14. Owned(Held, Avail)' /\ (Whole(Held, Avail) => Whole(Held, Avail)')
    <3>1. Avail' = Avail \cup {pte[p][v].at}
      BY <2>7 DEF Avail
    <3> QED  BY <2>2, <2>5, <2>6, <2>7, <2>11, <3>1, EntryOwned
  <2>15. Tidy => Tidy'
    <3> SUFFICES ASSUME Tidy PROVE Tidy'
      OBVIOUS
    <3>1. j.what = "fault" => j.page # Guard /\ pte'[p][j.page].at \notin Frame
      <4>1. j.what = "fault" => j.page # Guard /\ pte[p][j.page].at \notin Frame /\ j.page < sz[p]
        BY <2>11 DEF Tidy, SameWork, JobOK, Faults
      <4>2. \A w \in Page : pte'[p][w].at = pte[p][w].at \/ pte'[p][w].at \notin Frame
        BY <2>5, <2>6, <2>11, EntryIs, Constants DEF PagingInv
      <4>3. j.page < sz[p] => j.page \in Page
        BY Typing, Constants DEF PagingInv, Job, Page
      <4> QED  BY <4>1, <4>2, <4>3
    <3>2. j.what = "copy" => j.pte.at \in Frame /\ (j.page # Guard => j.pte.u = TRUE)
      BY <2>11 DEF Tidy, SameWork
    <3>3. e.at # Null /\ e.at \notin Frame
      BY <2>5, <2>6, Constants
    <3> QED  BY <2>5, <2>6, <2>7, <2>11, <2>12, <3>1, <3>2, <3>3, EntryTidy
  <2> QED  BY <2>13, <2>14, <2>15 DEF PagingInv, OwnedInv
<1> QED  BY <1>2, <1>3

\* A process at "have" with a page of its own to map.
LEMMA HaveFacts ==
    ASSUME PagingInv, NEW p \in Proc, pc[p] = "have"
    PROVE  /\ job[p] \in Job /\ JobOK("have", job[p], pte[p], sz[p])
           /\ job[p].page \in Page /\ job[p].got \in Frame /\ job[p].disk = Null
           /\ pte[p][job[p].page] \in Pte /\ Live(p) /\ job[p].what \in Faults
<1>1. job[p] \in Job /\ JobOK("have", job[p], pte[p], sz[p]) /\ sz[p] \in 0 .. MaxPages
  BY Typing DEF PagingInv, Jobs
<1>2. job[p].got \in Frame /\ job[p].disk = Null /\ job[p].what \in Faults
  BY <1>1 DEF JobOK, Job
<1>3. job[p].page \in Page
  BY <1>1, <1>2, Constants DEF JobOK, Job, Page
<1> QED  BY <1>1, <1>2, <1>3, Typing DEF PagingInv, Live

\* read_page_from_disk() and bfree_page().
LEMMA ReadStep ==
    ASSUME PagingInv, NEW p \in Proc, map_swapped(p) \/ copy_in(p)
    PROVE  PagingInv' /\ (OwnedInv => OwnedInv')
<1>1. pc[p] = "have" /\ ReadIn(p, job[p].page) /\ UNCHANGED <<free, disk, dir, tab, sz, files, val, stopped>>
  BY DEF map_swapped, copy_in, At
<1>2. PICK v : v = job[p].page
  OBVIOUS
<1>3. PICK e : e = Entry(job[p].got, TRUE, FALSE)
  OBVIOUS
<1>4. /\ job[p] \in Job /\ JobOK("have", job[p], pte[p], sz[p])
      /\ v \in Page /\ job[p].got \in Frame /\ job[p].disk = Null
      /\ pte[p][v] \in Pte /\ Live(p) /\ job[p].what \in Faults
  BY <1>1, <1>2, HaveFacts
<1>5. pte[p][v].at \in Disk
  BY <1>2, <1>4 DEF map_swapped, copy_in, Swapped, JobOK
<1>6. e \in Pte /\ e.at = job[p].got /\ e.u = TRUE
  BY <1>3, <1>4 DEF Entry, Pte
<1>7. /\ mem' = [mem EXCEPT ![job[p].got] = disk[pte[p][v].at]]
      /\ pte' = [pte EXCEPT ![p][v] = e]
      /\ stale' = [stale EXCEPT ![p] = NoStale]
      /\ freedisk' = freedisk \cup {pte[p][v].at}
  BY <1>1, <1>2, <1>3 DEF ReadIn
<1>8. /\ disk' \in [Disk -> Data] /\ mem' \in [Frame -> Data] /\ files' \in 0 .. NFILE
      /\ tab' \in [Proc -> [Region -> Frame \cup {Null}]]
      /\ stale' \in [Proc -> [Page -> Frame \cup {Null}]]
      /\ free' \subseteq Frame /\ freedisk' \subseteq Disk
  BY <1>1, <1>5, <1>7 DEF PagingInv, TypeOK, NoStale
<1>9. PICK l \in PC, j \in Job :
         /\ EntryStep(p, p, v, e, l, j) /\ JobOK(l, j, pte'[p], sz[p])
         /\ j.child \in {0, job[p].child} /\ j.got = Null /\ j.disk = Null
         /\ l \notin {"unused", "embryo"} /\ j.what \in {"none", "in"}
         /\ j.child = 0 \/ (j.child = job[p].child /\ j.page = job[p].page)
  <2>1. CASE map_swapped(p)
    <3>1. PICK j : j = NoJob
      OBVIOUS
    <3>2. EntryStep(p, p, v, e, "user", j) /\ "user" \in PC
      BY <1>1, <1>7, <1>8, <2>1, <3>1 DEF map_swapped, Back, goto, EntryStep, PC
    <3>3. /\ j \in Job /\ j.what = "none" /\ j.page = 0 /\ j.child = 0 /\ j.got = Null
          /\ j.disk = Null
      BY <3>1, NoJobTyped
    <3>4. JobOK("user", j, pte'[p], sz[p])
      BY <3>1, <3>3 DEF JobOK, Faults
    <3> QED  BY <3>2, <3>3, <3>4
  <2>2. CASE copy_in(p)
    <3>1. PICK j : j = [job[p] EXCEPT !.got = Null]
      OBVIOUS
    <3>2. EntryStep(p, p, v, e, "copy", j) /\ "copy" \in PC
      BY <1>1, <1>7, <1>8, <2>2, <3>1 DEF copy_in, goto, EntryStep, PC, PagingInv, TypeOK
    <3>3. j \in Job /\ SameWork(job[p], j) /\ j.got = Null /\ j.disk = Null
      BY <1>4, <3>1, GotSet
    <3>4. job[p].what = "in"
      BY <2>2 DEF copy_in
    <3>5. JobOK("copy", j, pte'[p], sz[p])
      BY <1>4, <3>3, <3>4 DEF JobOK, SameWork, Faults
    <3> QED  BY <3>2, <3>3, <3>4, <3>5 DEF SameWork
  <2> QED  BY <2>1, <2>2
<1>10. pc[p] # "embryo"
  BY <1>1
<1>11. TypeOK' /\ Jobs' /\ Children'
  BY <1>4, <1>6, <1>8, <1>9, <1>10, EntryInv
<1>12. Owned(Held, Avail)' /\ (Whole(Held, Avail) => Whole(Held, Avail)')
  <2>1. Avail' = Avail \cup {pte[p][v].at}
    BY <1>1, <1>7 DEF Avail
  <2> QED  BY <1>1, <1>4, <1>6, <1>9, <2>1, EntryOwned
<1>13. Tidy => Tidy'
  BY <1>1, <1>4, <1>6, <1>9, EntryTidy, Constants
<1> QED  BY <1>11, <1>12, <1>13 DEF PagingInv, OwnedInv

\* A page that was neither mapped nor swapped, or was mapped already.
LEMMA ZeroedStep ==
    ASSUME PagingInv, NEW p \in Proc, map_zeroed(p)
    PROVE  PagingInv' /\ (OwnedInv => OwnedInv')
<1>1. /\ pc[p] = "have" /\ job[p].what = "fault" /\ ~Swapped(p, job[p].page)
      /\ job' = [job EXCEPT ![p] = NoJob] /\ pc' = [pc EXCEPT ![p] = "user"]
      /\ UNCHANGED <<free, freedisk, disk, dir, tab, sz, stale, files, val, stopped>>
  BY DEF map_zeroed, At, Back, goto
<1>2. PICK v : v = job[p].page
  OBVIOUS
<1>3. PICK e : e = Entry(job[p].got, TRUE, FALSE)
  OBVIOUS
<1>4. /\ v \in Page /\ job[p].got \in Frame /\ job[p].disk = Null
      /\ pte[p][v] \in Pte /\ Live(p)
  BY <1>1, <1>2, HaveFacts
<1>5. e \in Pte /\ e.at = job[p].got /\ e.u = TRUE
  BY <1>3, <1>4 DEF Entry, Pte
<1>6. pte' = [pte EXCEPT ![p][v] = e] /\ mem' = [mem EXCEPT ![job[p].got] = Zero]
  BY <1>2, <1>3 DEF map_zeroed
<1>7. /\ disk' \in [Disk -> Data] /\ mem' \in [Frame -> Data] /\ files' \in 0 .. NFILE
      /\ tab' \in [Proc -> [Region -> Frame \cup {Null}]]
      /\ stale' \in [Proc -> [Page -> Frame \cup {Null}]]
      /\ free' \subseteq Frame /\ freedisk' \subseteq Disk
  BY <1>1, <1>6 DEF PagingInv, TypeOK, Data
<1>8. PICK j : j = NoJob
  OBVIOUS
<1>9. /\ j \in Job /\ j.what = "none" /\ j.page = 0 /\ j.child = 0 /\ j.got = Null
      /\ j.disk = Null
  BY <1>8, NoJobTyped
<1>10. EntryStep(p, p, v, e, "user", j) /\ "user" \in PC
  BY <1>1, <1>6, <1>7, <1>8 DEF EntryStep, PC
<1>11. JobOK("user", j, pte'[p], sz[p])
  BY <1>8, <1>9 DEF JobOK, Faults
<1>12. TypeOK' /\ Jobs' /\ Children'
  BY <1>1, <1>4, <1>5, <1>7, <1>9, <1>10, <1>11, EntryInv
<1>13. Owned(Held, Avail)' /\ (Whole(Held, Avail) /\ Tidy => Whole(Held, Avail)')
  <2>1. UNCHANGED Avail
    BY <1>1 DEF Avail
  <2>2. Tidy => pte[p][v].at \notin Resource
    BY <1>1, <1>2 DEF Tidy, Swapped, Resource
  <2> QED  BY <1>1, <1>4, <1>5, <1>9, <1>10, <2>1, <2>2, EntryOwned
<1>14. Tidy => Tidy'
  BY <1>1, <1>4, <1>5, <1>9, <1>10, EntryTidy, Constants
<1> QED  BY <1>12, <1>13, <1>14 DEF PagingInv, OwnedInv

-----------------------------------------------------------------------------
(* fork() and exit().                                                      *)

\* setupkvm(): the child has its directory.
LEMMA ForkStep ==
    ASSUME PagingInv, NEW p \in Proc, NEW q \in Proc, fork(p, q)
    PROVE  PagingInv' /\ (OwnedInv => OwnedInv')
<1>1. /\ pc[p] = "user" /\ pc[q] = "unused" /\ p # q /\ free # {} /\ "fork" \in Ops
      /\ free' = free \ {NextFree} /\ dir' = [dir EXCEPT ![q] = NextFree]
      /\ UNCHANGED <<freedisk, mem, disk, tab, pte, sz, stale, files, val, stopped>>
  BY DEF fork, At
<1>2. NextFree \in free /\ NextFree \in Frame
  BY <1>1, NextFreeIn DEF PagingInv, TypeOK
<1>3. PICK j : j = [NoJob EXCEPT !.child = q]
  OBVIOUS
<1>4. /\ j \in Job /\ j.what = "none" /\ j.page = 0 /\ j.child = q /\ j.got = Null
      /\ j.disk = Null
  BY <1>3, NoJobTyped DEF Job, Proc
<1>5. /\ job'[p] = j /\ \A o \in Proc \ {p} : job'[o] = job[o]
      /\ pc'[p] = "copy" /\ pc'[q] = "embryo" /\ \A o \in Proc \ {p, q} : pc'[o] = pc[o]
      /\ job' \in [Proc -> Job] /\ pc' \in [Proc -> PC]
  <2>1. job \in [Proc -> Job] /\ pc \in [Proc -> PC]
    BY DEF PagingInv, TypeOK, Job
  <2>2. pc' = [pc EXCEPT ![p] = "copy", ![q] = "embryo"] /\ job' = [job EXCEPT ![p] = j]
    BY <1>3 DEF fork
  <2> QED  BY <1>1, <1>4, <2>1, <2>2 DEF PC
<1>6. dir'[q] = NextFree /\ \A o \in Proc \ {q} : dir'[o] = dir[o]
  BY <1>1 DEF PagingInv, TypeOK
<1>7. TypeOK'
  BY <1>1, <1>2, <1>5 DEF PagingInv, TypeOK, Job
<1>8. job[p] = NoJob /\ job[q] = NoJob
  BY <1>1 DEF PagingInv, Jobs, JobOK
<1>9. Jobs'
  <2>1. ASSUME NEW o \in Proc PROVE JobOK(pc'[o], job'[o], pte[o], sz[o])
    <3>1. JobOK(pc[o], job[o], pte[o], sz[o]) /\ sz[o] \in 0 .. MaxPages
      BY Typing DEF PagingInv, Jobs
    <3>2. CASE o = p
      BY <1>1, <1>4, <1>5, <3>1, <3>2, Constants DEF JobOK, Faults
    <3>3. CASE o = q
      BY <1>1, <1>5, <1>8, <3>1, <3>3 DEF JobOK
    <3>4. CASE o \notin {p, q}
      BY <1>5, <3>1, <3>4
    <3> QED  BY <3>2, <3>3, <3>4
  <2> QED  BY <1>1, <2>1 DEF Jobs
<1>10. \A o \in Proc : job[o].child # q
  BY <1>1, Constants DEF PagingInv, Children
<1>11. Children'
  <2>1. ASSUME NEW o \in Proc, job'[o].child # 0 PROVE pc'[job'[o].child] = "embryo"
    <3>1. CASE o = p
      BY <1>4, <1>5, <3>1
    <3>2. CASE o # p
      <4>1. job'[o].child = job[o].child /\ pc[job[o].child] = "embryo"
        BY <1>5, <2>1, <3>2 DEF PagingInv, Children
      <4>2. job[o].child \in Proc \ {p, q}
        BY <1>1, <2>1, <4>1, Typing DEF PagingInv, Job, Proc
      <4> QED  BY <1>5, <4>1, <4>2
    <3> QED  BY <3>1, <3>2
  <2>2. \A o, r \in Proc : job'[o].child = job'[r].child /\ o # r => job'[o].child = 0
    BY <1>4, <1>5, <1>8, <1>10 DEF PagingInv, Children
  <2> QED  BY <2>1, <2>2 DEF Children
<1>12. Owned(Held, Avail)' /\ (Whole(Held, Avail) /\ Tidy => Whole(Held, Avail)')
  <2> DEFINE x == <<"dir", q>>
             S == {x}
  <2>1. x \in Place /\ Held[x] = dir[q]
    BY PlaceIs
  <2>2. Held'[x] = NextFree
    BY <1>6, <2>1 DEF Held
  <2>3. \A o \in Proc : job'[o].got = job[o].got /\ job'[o].disk = job[o].disk
    BY <1>4, <1>5, <1>8, NoJobTyped
  <2>4. /\ \A o \in Proc : <<"dir", o>> \in S \/ dir'[o] = dir[o]
        /\ \A o \in Proc : <<"got", o>> \in S \/ job'[o].got = job[o].got
        /\ \A o \in Proc : <<"disk", o>> \in S \/ job'[o].disk = job[o].disk
        /\ \A o \in Proc, r \in Region : <<"tab", o, r>> \in S \/ tab'[o][r] = tab[o][r]
        /\ \A o \in Proc, w \in Page : <<"pte", o, w>> \in S \/ pte'[o][w].at = pte[o][w].at
    BY <1>1, <1>6, <2>3
  <2>5. \A y \in Place \ S : Held'[y] = Held[y]
    <3> HIDE DEF S
    <3> QED  BY <2>4, HeldKept
  <2>6. NextFree \in Avail /\ Avail' = Avail \ {NextFree}
    BY <1>1, <1>2, AvailLess DEF PagingInv, Avail
  <2>7. Tidy => Held[x] \notin Resource
    BY <1>1, <2>1, NullHeld DEF Tidy
  <2> HIDE DEF x
  <2> QED  BY <2>1, <2>2, <2>5, <2>6, <2>7, TakeStep DEF PagingInv
<1>13. Tidy => Tidy'
  <2> SUFFICES ASSUME Tidy PROVE Tidy'
    OBVIOUS
  <2>1. \A o \in Proc : Live(o)' <=> Live(o)
    BY <1>1, <1>5 DEF Live
  <2>2. \A o \in Proc : \A n : Copied(o, n) => Copied(o, n)'
    BY <1>1 DEF Copied
  <2>3. \A o \in Proc : pc'[o] = "unused" =>
           dir'[o] = Null /\ (\A r \in Region : tab'[o][r] = Null) /\ Copied(o, 0)'
    BY <1>1, <1>5, <1>6, <2>2 DEF Tidy
  <2>4. \A o \in Proc : Live(o)' => tab'[o]["near"] # Null /\ sz'[o] >= 3
    BY <1>1, <2>1 DEF Tidy
  <2>5. \A o \in Proc, w \in Page : pte'[o][w].at \in Frame /\ w # Guard => pte'[o][w].u = TRUE
    BY <1>1 DEF Tidy, Present
  <2>6. \A o \in Proc, w \in Page : Live(o)' /\ w < sz'[o] => pte'[o][w].at # Null
    BY <1>1, <2>1 DEF Tidy
  <2>7. \A o \in Proc : /\ job'[o].what = "fault" =>
                              job'[o].page # Guard /\ pte'[o][job'[o].page].at \notin Frame
                        /\ job'[o].what = "copy" =>
                              job'[o].pte.at \in Frame /\ (job'[o].page # Guard => job'[o].pte.u = TRUE)
    BY <1>1, <1>4, <1>5 DEF Tidy
  <2>8. Copied(q, 0)
    BY <1>1 DEF Tidy
  <2>9. (\A o \in Proc : job[o].child # 0 => Copied(job[o].child, job[o].page))'
    <3>1. ASSUME NEW o \in Proc, job'[o].child # 0
          PROVE  /\ \A w \in Page : (w < job'[o].page) <=> (pte[job'[o].child][w].at # Null)
                 /\ job'[o].page > 0 => tab[job'[o].child]["near"] # Null
      <4>1. PICK c, n : c = job'[o].child /\ n = job'[o].page
        OBVIOUS
      <4>2. Copied(c, n)
        BY <1>4, <1>5, <2>8, <3>1, <4>1 DEF Tidy
      <4> QED  BY <4>1, <4>2 DEF Copied
    <3> QED  BY <1>1, <3>1 DEF Copied
  <2> QED  BY <2>3, <2>4, <2>5, <2>6, <2>7, <2>9 DEF Tidy, Present
<1> QED  BY <1>7, <1>9, <1>11, <1>12, <1>13 DEF PagingInv, OwnedInv

\* The parent and the child that it copies a page for.
LEMMA CopyFacts ==
    ASSUME PagingInv, NEW p \in Proc, pc[p] = "have", job[p].what = "copy"
    PROVE  /\ job[p].child \in Proc /\ job[p].child # p /\ pc[job[p].child] = "embryo"
           /\ job[p].page \in Page /\ job[p].page < sz[p] /\ "fork" \in Ops
           /\ job[p].pte \in Pte /\ job[p].pte.at \in Frame \cup {Null}
<1>1. /\ job[p] \in Job /\ JobOK("have", job[p], pte[p], sz[p]) /\ job[p].page \in Page
  BY HaveFacts
<1>2. job[p].child # 0
  BY <1>1 DEF JobOK
<1>3. job[p].child \in Proc /\ pc[job[p].child] = "embryo"
  BY <1>1, <1>2 DEF PagingInv, Children, Job, Proc
<1> QED  BY <1>1, <1>2, <1>3 DEF JobOK, Faults, Job, Pte

\* memmove() and mappages() for the child, with or without a new page table.
LEMMA CopyStep ==
    ASSUME PagingInv, NEW p \in Proc, copy_page(p)
    PROVE  PagingInv' /\ (Tame /\ OwnedInv => OwnedInv')
<1>1. pc[p] = "have" /\ job[p].what = "copy"
  BY DEF copy_page, At
<1>2. PICK v, q, f : v = job[p].page /\ q = job[p].child /\ f = job[p].got
  OBVIOUS
<1>3. PICK e : e = Entry(f, job[p].pte.u, job[p].pte.a)
  OBVIOUS
<1>4. PICK r : r = Regn(v)
  OBVIOUS
<1>5. /\ q \in Proc /\ q # p /\ pc[q] = "embryo" /\ v \in Page /\ v < sz[p] /\ "fork" \in Ops
      /\ job[p].pte \in Pte /\ job[p].pte.at \in Frame \cup {Null}
      /\ f \in Frame /\ job[p].disk = Null /\ Live(p) /\ sz[p] \in 0 .. MaxPages
  BY <1>1, <1>2, CopyFacts, HaveFacts, Typing DEF PagingInv
<1>6. e \in Pte /\ e.at = f /\ e.u = job[p].pte.u /\ r \in Region
  BY <1>3, <1>4, <1>5 DEF Entry, Pte, Regn, Region
<1>7. PICK j : j = [NoJob EXCEPT !.child = q, !.page = v + 1]
  OBVIOUS
<1>8. /\ j \in Job /\ j.what = "none" /\ j.child = q /\ j.page = v + 1 /\ j.got = Null
      /\ j.disk = Null
  <2>1. v + 1 \in 0 .. MaxPages /\ q \in 0 .. NPROC
    BY <1>5, Constants DEF Page, Proc
  <2> QED  BY <1>7, <2>1, NoJobTyped DEF Job
<1>9. /\ pte' = [pte EXCEPT ![q][v] = e]
      /\ mem' = [mem EXCEPT ![f] = IF job[p].pte.at = Null THEN Junk ELSE mem[job[p].pte.at]]
      /\ job' = [job EXCEPT ![p] = j] /\ pc' = [pc EXCEPT ![p] = "copy"]
      /\ UNCHANGED <<freedisk, disk, dir, sz, stale, files, val, stopped>>
  BY <1>2, <1>3, <1>7 DEF copy_page, CopyTo, goto
<1>10. \/ tab[q][r] = Null /\ free # {} /\ free' = free \ {NextFree}
          /\ tab' = [tab EXCEPT ![q][r] = NextFree]
       \/ tab[q][r] # Null /\ UNCHANGED <<free, tab>>
  BY <1>2, <1>4 DEF copy_page
<1>11. free # {} => NextFree \in free /\ NextFree \in Frame
  BY NextFreeIn DEF PagingInv, TypeOK
<1>12. /\ tab' \in [Proc -> [Region -> Frame \cup {Null}]]
       /\ \A o \in Proc, s \in Region : o # q \/ s # r => tab'[o][s] = tab[o][s]
       /\ tab'[q][r] # Null
       /\ tab[q][r] = Null => tab'[q][r] = NextFree
       /\ free' \subseteq Frame
  <2>1. tab \in [Proc -> [Region -> Frame \cup {Null}]] /\ free \subseteq Frame
    BY DEF PagingInv, TypeOK
  <2>2. CASE tab[q][r] = Null
    <3>1. [tab[q] EXCEPT ![r] = NextFree] \in [Region -> Frame \cup {Null}]
      BY <1>5, <1>6, <1>10, <1>11, <2>1, <2>2
    <3>2. tab' = [tab EXCEPT ![q] = [tab[q] EXCEPT ![r] = NextFree]] /\ free' \subseteq free
      BY <1>10, <2>2
    <3>3. NextFree # Null
      BY <1>10, <1>11, <2>2, Constants
    <3> QED  BY <1>5, <1>6, <2>1, <2>2, <3>1, <3>2, <3>3
  <2>3. CASE tab[q][r] # Null
    BY <1>10, <2>1, <2>3
  <2> QED  BY <2>2, <2>3
<1>13. /\ disk' \in [Disk -> Data] /\ mem' \in [Frame -> Data] /\ files' \in 0 .. NFILE
       /\ stale' \in [Proc -> [Page -> Frame \cup {Null}]] /\ freedisk' \subseteq Disk
  BY <1>5, <1>9 DEF PagingInv, TypeOK, Data
<1>14. EntryStep(p, q, v, e, "copy", j) /\ "copy" \in PC
  BY <1>9, <1>12, <1>13 DEF EntryStep, PC
<1>15. /\ pte'[q][v] = e
       /\ \A o \in Proc, w \in Page : o # q \/ w # v => pte'[o][w] = pte[o][w]
       /\ \A o \in Proc : o # q => pte'[o] = pte[o]
       /\ job'[p] = j /\ pc'[p] = "copy"
       /\ \A o \in Proc \ {p} : job'[o] = job[o] /\ pc'[o] = pc[o]
  BY <1>5, <1>14, EntryIs DEF PagingInv
<1>16. JobOK("copy", j, pte'[p], sz[p])
  BY <1>5, <1>8, Constants DEF JobOK, Faults, Page
<1>17. TypeOK' /\ Jobs' /\ Children'
  <2>1. j.child \in {0, job[p].child} /\ pc[p] # "embryo"
    BY <1>1, <1>2, <1>8
  <2> QED  BY <1>5, <1>6, <1>8, <1>12, <1>13, <1>14, <1>16, <2>1, EntryInv
<1>18. Tidy => pte[q][v].at = Null
  BY <1>2, <1>5, Constants DEF Tidy, Copied, Page
<1>19. Owned(Held, Avail)' /\ (Whole(Held, Avail) /\ Tidy => Whole(Held, Avail)')
  <2>1. CASE tab[q][r] # Null
    <3>1. UNCHANGED Avail /\ UNCHANGED tab
      BY <1>9, <1>10, <2>1 DEF Avail
    <3> QED  BY <1>2, <1>5, <1>6, <1>8, <1>14, <1>18, <3>1, EntryOwned, NullHeld
  <2>2. CASE tab[q][r] = Null
    <3> DEFINE x == <<"pte", q, v>>
               g == <<"got", p>>
               d == <<"disk", p>>
               t == <<"tab", q, r>>
               T == {t}
    <3>1. x \in Place /\ g \in Place /\ t \in Place /\ x # g /\ x # t /\ g # t /\ d # x /\ d # g
          /\ Held[x] = pte[q][v].at /\ Held[g] = f /\ Held[d] = Null /\ Held[t] = Null
      BY <1>2, <1>5, <1>6, <2>2, PlaceIs
    <3>2. PICK a : a = e.at
      OBVIOUS
    <3>3. EntryChange(p, q, v, a, T)
      BY <1>9, <1>12, <1>15, <3>2 DEF EntryChange
    <3>4. /\ Held'[x] = f /\ Held'[g] = Null /\ Held'[d] = Null
          /\ \A y \in Place \ ({x, g, d} \cup T) : Held'[y] = Held[y]
      <4> HIDE DEF T
      <4> QED  BY <1>5, <1>6, <1>8, <1>15, <3>2, <3>3, EntryHeld
    <3>5. Held'[t] = NextFree
      BY <1>12, <2>2, <3>1 DEF Held
    <3>6. NextFree \in Avail /\ Avail' = Avail \ {NextFree}
      BY <1>9, <1>10, <1>11, <2>2, AvailLess DEF PagingInv, Avail
    <3> HIDE DEF x, g, d, t
    <3>7. \A y \in Place \ {x, g, t} : Held'[y] = Held[y]
      BY <3>1, <3>4
    <3>8. Tidy => Held[x] \notin Resource /\ Held[t] \notin Resource
      BY <1>18, <3>1, NullHeld
    <3> QED  BY <3>1, <3>4, <3>5, <3>6, <3>7, <3>8, MoveTakeStep, NullHeld DEF PagingInv
  <2> QED  BY <2>1, <2>2
<1>20. Tame /\ Tidy => Tidy'
  <2> SUFFICES ASSUME Tame, Tidy PROVE Tidy'
    OBVIOUS
  <2>1. \A o \in Proc : Live(o)' <=> Live(o)
    BY <1>1, <1>15 DEF Live
  <2>2. r = "near"
    BY <1>4 DEF Tame, Regn
  <2>3. \A o \in Proc \ {q} : \A n : Copied(o, n) => Copied(o, n)'
    <3>1. \A o \in Proc \ {q} : tab'[o]["near"] = tab[o]["near"] /\ pte'[o] = pte[o]
      BY <1>12, <1>15 DEF Region
    <3> QED  BY <3>1 DEF Copied
  <2>4. \A o \in Proc : pc'[o] = "unused" => o # q /\ pc[o] = "unused"
    BY <1>5, <1>15
  <2>5. \A o \in Proc : pc'[o] = "unused" =>
           dir'[o] = Null /\ (\A s \in Region : tab'[o][s] = Null) /\ Copied(o, 0)'
    BY <1>9, <1>12, <2>3, <2>4 DEF Tidy
  <2>6. \A o \in Proc : Live(o)' => tab'[o]["near"] # Null /\ sz'[o] >= 3
    <3>1. "near" \in Region
      BY DEF Region
    <3>2. \A o \in Proc : Live(o)' => o # q
      BY <1>5, <2>1 DEF Live
    <3> QED  BY <1>9, <1>12, <2>1, <3>1, <3>2 DEF Tidy
  <2>7. \A o \in Proc, w \in Page : pte'[o][w].at \in Frame /\ w # Guard => pte'[o][w].u = TRUE
    <3> SUFFICES ASSUME NEW o \in Proc, NEW w \in Page
                 PROVE  pte'[o][w].at \in Frame /\ w # Guard => pte'[o][w].u = TRUE
      OBVIOUS
    <3>1. CASE o = q /\ w = v
      BY <1>1, <1>2, <1>6, <1>15, <3>1 DEF Tidy
    <3>2. CASE o # q \/ w # v
      BY <1>15, <3>2 DEF Tidy, Present
    <3> QED  BY <3>1, <3>2
  <2>8. \A o \in Proc, w \in Page : Live(o)' /\ w < sz'[o] => pte'[o][w].at # Null
    <3>1. \A o \in Proc, w \in Page : Live(o) /\ w < sz[o] => pte[o][w].at # Null
      BY <1>5 DEF Tidy
    <3>2. \A o \in Proc : Live(o) => o # q
      BY <1>5 DEF Live
    <3> QED  BY <1>9, <1>15, <2>1, <3>1, <3>2
  <2>9. ASSUME NEW o \in Proc
        PROVE  /\ job'[o].what = "fault" =>
                     job'[o].page # Guard /\ pte'[o][job'[o].page].at \notin Frame
               /\ job'[o].what = "copy" =>
                     job'[o].pte.at \in Frame /\ (job'[o].page # Guard => job'[o].pte.u = TRUE)
    <3>1. CASE o = p
      BY <1>8, <1>15, <3>1
    <3>2. CASE o = q
      <4>1. job[q] = NoJob /\ job'[q] = job[q]
        BY <1>5, <1>15 DEF PagingInv, Jobs, JobOK
      <4> QED  BY <3>2, <4>1, NoJobTyped
    <3>3. CASE o \notin {p, q}
      BY <1>15, <3>3 DEF Tidy
    <3> QED  BY <3>1, <3>2, <3>3
  <2>10. (\A o \in Proc : job[o].child # 0 => Copied(job[o].child, job[o].page))'
    <3>1. Copied(q, v)
      BY <1>2, <1>5, Constants DEF Tidy
    <3>2. /\ \A w \in Page : (w < v + 1) <=> (pte'[q][w].at # Null)
          /\ v + 1 > 0 => tab'[q]["near"] # Null
      <4>1. ASSUME NEW w \in Page PROVE (w < v + 1) <=> (pte'[q][w].at # Null)
        <5>1. CASE w = v
          BY <1>5, <1>6, <1>15, <5>1, Constants DEF Page
        <5>2. CASE w # v
          BY <1>5, <1>15, <3>1, <5>2 DEF Copied, Page
        <5> QED  BY <5>1, <5>2
      <4> QED  BY <1>12, <2>2, <4>1
    <3>3. ASSUME NEW o \in Proc, job'[o].child # 0
          PROVE  /\ \A w \in Page : (w < job'[o].page) <=> (pte'[job'[o].child][w].at # Null)
                 /\ job'[o].page > 0 => tab'[job'[o].child]["near"] # Null
      <4>1. CASE o = p
        BY <1>8, <1>15, <3>2, <4>1
      <4>2. CASE o # p
        <5>1. PICK c, n : c = job[o].child /\ n = job[o].page
          OBVIOUS
        <5>2. c = job'[o].child /\ n = job'[o].page /\ c # 0
          BY <1>15, <3>3, <4>2, <5>1
        <5>3. c \in Proc \ {q} /\ Copied(c, n)
          <6>1. c \in Proc
            <7>1. job[o] \in Job
              BY Typing DEF PagingInv
            <7>2. c \in 0 .. NPROC
              BY <5>1, <7>1 DEF Job
            <7> QED  BY <5>2, <7>2, Constants DEF Proc
          <6>2. c # q
            <7>1. \A a, b \in Proc : job[a].child = job[b].child /\ a # b => job[a].child = 0
              BY DEF PagingInv, Children
            <7> QED  BY <1>2, <4>2, <5>1, <5>2, <7>1
          <6> QED  BY <5>1, <5>2, <6>1, <6>2 DEF Tidy
        <5>4. Copied(c, n)'
          BY <2>3, <5>3
        <5> QED  BY <5>2, <5>4 DEF Copied
      <4> QED  BY <4>1, <4>2
    <3> QED  BY <3>3 DEF Copied
  <2> QED  BY <2>5, <2>6, <2>7, <2>8, <2>9, <2>10 DEF Tidy, Present
<1> QED  BY <1>17, <1>19, <1>20 DEF PagingInv, OwnedInv

\* Under Tame there are no more frames than directories, page tables and pages:
\* while a child has no page table, a frame is free.
NearOnly == \A p \in Proc : tab[p]["far"] = Null

Slot == Proc \X (0 .. MaxPages + 1)

\* The frame f is, or is to be, in the slot i of the process o.
Fills(f, o, i) ==
    \/ i = MaxPages /\ dir[o] = f
    \/ i = MaxPages + 1 /\ tab[o]["near"] = f
    \/ i \in Page /\ pte[o][i].at = f
    \/ i \in Page /\ job[o].what \in {"fault", "in"} /\ job[o].page = i /\ job[o].got = f
    \/ i \in Page /\ \E r \in Proc : /\ job[r].what = "copy" /\ job[r].child = o
                                     /\ job[r].page = i /\ job[r].got = f

LEMMA SlotFound ==
    ASSUME PagingInv, NearOnly, Whole(Held, Avail), free = {}, NEW f \in Frame
    PROVE  \E o \in Proc, i \in 0 .. MaxPages + 1 : Fills(f, o, i)
<1>1. f \notin Avail /\ f \in Resource /\ f # Null
  BY Constants DEF Avail, Resource, PagingInv, TypeOK
<1>2. PICK x \in Place : Held[x] = f
  BY <1>1 DEF Whole
<1>3. MaxPages \in 0 .. MaxPages + 1 /\ MaxPages + 1 \in 0 .. MaxPages + 1
      /\ \A v \in Page : v \in 0 .. MaxPages + 1
  BY Constants DEF Page
<1>4. ASSUME NEW p \in Proc, x = <<"dir", p>> \/ x = <<"got", p>> \/ x = <<"disk", p>>
      PROVE  \E o \in Proc, i \in 0 .. MaxPages + 1 : Fills(f, o, i)
  <2>1. CASE x = <<"dir", p>>
    <3>1. dir[p] = f
      BY <1>2, <2>1, PlaceIs
    <3> QED  BY <1>3, <3>1 DEF Fills
  <2>2. CASE x = <<"got", p>>
    <3>1. job[p].got = f
      BY <1>2, <2>2, PlaceIs
    <3>2. pc[p] = "have"
      BY <1>1, <3>1 DEF PagingInv, Jobs, JobOK
    <3>3. job[p].page \in Page /\ job[p].what \in Faults
      BY <3>2, HaveFacts
    <3>4. CASE job[p].what = "copy"
      <4>1. job[p].child \in Proc
        BY <3>2, <3>4, CopyFacts
      <4> QED  BY <1>3, <3>1, <3>3, <3>4, <4>1 DEF Fills
    <3>5. CASE job[p].what # "copy"
      BY <1>3, <3>1, <3>3, <3>5 DEF Fills, Faults
    <3> QED  BY <3>4, <3>5
  <2>3. CASE x = <<"disk", p>>
    <3>1. job[p].disk = f /\ job[p] \in Job
      BY <1>2, <2>3, PlaceIs, Typing DEF PagingInv
    <3> QED  BY <1>1, <3>1, Constants DEF Job
  <2> QED  BY <1>4, <2>1, <2>2, <2>3
<1>5. ASSUME NEW p \in Proc, NEW r \in Region, x = <<"tab", p, r>>
      PROVE  \E o \in Proc, i \in 0 .. MaxPages + 1 : Fills(f, o, i)
  <2>1. tab[p][r] = f
    BY <1>2, <1>5, PlaceIs
  <2>2. r = "near"
    BY <1>1, <2>1 DEF NearOnly, Region
  <2> QED  BY <1>3, <2>1, <2>2 DEF Fills
<1>6. ASSUME NEW p \in Proc, NEW v \in Page, x = <<"pte", p, v>>
      PROVE  \E o \in Proc, i \in 0 .. MaxPages + 1 : Fills(f, o, i)
  <2>1. pte[p][v].at = f
    BY <1>2, <1>6, PlaceIs
  <2> QED  BY <1>3, <2>1 DEF Fills
<1> QED  BY <1>4, <1>5, <1>6, PlaceCases

LEMMA SlotSingle ==
    ASSUME PagingInv, Tidy, NEW o \in Proc, NEW i, NEW f \in Frame, NEW g \in Frame,
           Fills(f, o, i), Fills(g, o, i)
    PROVE  f = g
<1>1. f # Null /\ g # Null /\ MaxPages \notin Page /\ MaxPages + 1 \notin Page
  BY Constants DEF Page
<1>2. CASE i = MaxPages
  <2>1. i # MaxPages + 1 /\ i \notin Page
    BY <1>1, <1>2, Constants
  <2> QED  BY <2>1 DEF Fills
<1>3. CASE i = MaxPages + 1
  <2>1. i # MaxPages /\ i \notin Page
    BY <1>1, <1>3, Constants
  <2> QED  BY <2>1 DEF Fills
<1>4. CASE i \in Page
  <2> DEFINE own(h) == job[o].what \in {"fault", "in"} /\ job[o].page = i /\ job[o].got = h
             for(r, h) == /\ job[r].what = "copy" /\ job[r].child = o
                          /\ job[r].page = i /\ job[r].got = h
  <2>1. ASSUME NEW h \in Frame, Fills(h, o, i)
        PROVE  pte[o][i].at = h \/ own(h) \/ \E r \in Proc : for(r, h)
    BY <1>1, <1>4, <2>1 DEF Fills
  <2>2. ASSUME NEW h \in Frame, own(h) PROVE pte[o][i].at \notin Frame
    <3>1. h # Null /\ JobOK(pc[o], job[o], pte[o], sz[o])
      BY <2>2, Constants DEF PagingInv, Jobs
    <3>2. pc[o] = "have"
      BY <2>2, <3>1 DEF JobOK
    <3>3. job[o].what = "in" => pte[o][i].at \in Disk
      BY <2>2, <3>1, <3>2 DEF JobOK
    <3>4. job[o].what = "fault" => pte[o][i].at \notin Frame
      BY <2>2 DEF Tidy
    <3> QED  BY <2>2, <3>3, <3>4, Constants
  <2>3. ASSUME NEW h \in Frame, NEW r \in Proc, for(r, h)
        PROVE  pte[o][i].at = Null /\ job[o] = NoJob
    <3>1. job[r].child # 0
      BY <2>3, Constants
    <3>2. pc[o] = "embryo" /\ Copied(o, i)
      BY <2>3, <3>1 DEF PagingInv, Children, Tidy
    <3>3. job[o] = NoJob
      BY <3>2 DEF PagingInv, Jobs, JobOK
    <3>4. ~(i < i)
      BY <1>4, Constants DEF Page
    <3> QED  BY <1>4, <3>2, <3>3, <3>4 DEF Copied
  <2>4. ASSUME NEW r \in Proc, NEW s \in Proc, for(r, f), for(s, g) PROVE f = g
    <3>1. r = s
      <4>1. \A a, b \in Proc : job[a].child = job[b].child /\ a # b => job[a].child = 0
        BY DEF PagingInv, Children
      <4> QED  BY <2>4, <4>1, Constants
    <3> QED  BY <2>4, <3>1
  <2>5. NoJob.what = "none"
    BY NoJobTyped
  <2>6. \A h \in Frame : own(h) => job[o].what # "none"
    OBVIOUS
  <2>7. /\ pte[o][i].at = f \/ own(f) \/ \E r \in Proc : for(r, f)
        /\ pte[o][i].at = g \/ own(g) \/ \E r \in Proc : for(r, g)
    BY <2>1
  <2>8. own(f) /\ own(g) => f = g
    OBVIOUS
  <2> HIDE DEF own, for
  <2> QED  BY <1>1, <2>2, <2>3, <2>4, <2>5, <2>6, <2>7, <2>8
<1> QED  BY <1>2, <1>3, <1>4 DEF Fills

LEMMA SlotLeft ==
    ASSUME PagingInv, NearOnly, Tame, Whole(Held, Avail), Tidy, "fork" \in Ops,
           NEW q \in Proc, NEW i \in 0 .. MaxPages + 1, \A f \in Frame : ~Fills(f, q, i)
    PROVE  free # {}
<1> SUFFICES ASSUME free = {} PROVE FALSE
  OBVIOUS
<1> USE Constants
<1>1. PICK K : K = NPROC * (MaxPages + 2)
  OBVIOUS
<1>2. IsFiniteSet(Slot) /\ Cardinality(Slot) = K
  <2>1. IsFiniteSet(Proc) /\ Cardinality(Proc) = NPROC
    BY FS_Interval DEF Proc
  <2>2. IsFiniteSet(0 .. MaxPages + 1) /\ Cardinality(0 .. MaxPages + 1) = MaxPages + 2
    BY FS_Interval
  <2>3. IsFiniteSet(Slot) /\ Cardinality(Slot) = Cardinality(Proc) * Cardinality(0 .. MaxPages + 1)
    BY <2>1, <2>2, FS_Product DEF Slot
  <2> QED  BY <1>1, <2>1, <2>2, <2>3
<1>3. IsFiniteSet(Frame) /\ Cardinality(Frame) = NFRAME
  <2>1. IsFiniteSet(1 .. NFRAME) /\ Cardinality(1 .. NFRAME) = NFRAME
    BY FS_Interval
  <2> QED  BY <2>1 DEF Frame
<1> DEFINE x == <<q, i>>
           T == Slot \ {x}
           g == [f \in Frame |-> CHOOSE s \in T : Fills(f, s[1], s[2])]
<1>4. x \in Slot
  BY DEF Slot
<1>5. IsFiniteSet(T) /\ Cardinality(T) = K - 1
  <2> HIDE DEF x
  <2> QED  BY <1>2, <1>4, FS_RemoveElement
<1>6. ASSUME NEW f \in Frame PROVE \E s \in T : Fills(f, s[1], s[2])
  <2>1. PICK o \in Proc, k \in 0 .. MaxPages + 1 : Fills(f, o, k)
    BY SlotFound
  <2>2. <<o, k>> \in T /\ <<o, k>>[1] = o /\ <<o, k>>[2] = k
    BY <2>1 DEF Slot
  <2> QED  BY <2>1, <2>2
<1>7. g \in [Frame -> T] /\ \A f \in Frame : Fills(f, g[f][1], g[f][2])
  BY <1>6
<1>8. K \in Int /\ K - 1 < NFRAME
  BY <1>1 DEF Tame
<1>9. PICK a, b \in Frame : a # b /\ g[a] = g[b]
  <2> HIDE DEF g, T
  <2>1. Cardinality(T) < Cardinality(Frame)
    BY <1>3, <1>5, <1>8
  <2> QED  BY <1>3, <1>5, <1>7, <2>1, FS_PigeonHole
<1>10. Fills(a, g[a][1], g[a][2]) /\ Fills(b, g[a][1], g[a][2])
  BY <1>7, <1>9
<1>11. g[a][1] \in Proc
  BY <1>7 DEF Slot
<1> HIDE DEF g
<1> QED  BY <1>9, <1>10, <1>11, SlotSingle

LEMMA FrameLeft ==
    ASSUME PagingInv, NearOnly, Tame, Whole(Held, Avail), Tidy, "fork" \in Ops,
           NEW q \in Proc, tab[q]["near"] = Null
    PROVE  free # {}
<1>1. MaxPages + 1 \in 0 .. MaxPages + 1
  BY Constants
<1>2. ASSUME NEW f \in Frame PROVE ~Fills(f, q, MaxPages + 1)
  <2>1. MaxPages + 1 # MaxPages /\ MaxPages + 1 \notin Page /\ f # Null
    BY Constants DEF Page
  <2> QED  BY <2>1 DEF Fills
<1> QED  BY <1>1, <1>2, SlotLeft

\* So kalloc() finds a frame, whatever for.
LEMMA FrameForAll ==
    ASSUME PagingInv, NearOnly, Tame, Whole(Held, Avail), Tidy, "fork" \in Ops,
           NEW p \in Proc, pc[p] = "kalloc"
    PROVE  free # {}
<1> USE Constants
<1>1. /\ job[p] \in Job /\ JobOK("kalloc", job[p], pte[p], sz[p]) /\ sz[p] \in 0 .. MaxPages
  BY Typing DEF PagingInv, Jobs
<1>2. job[p].what \in Faults /\ job[p].got = Null /\ job[p].page \in Page
  BY <1>1 DEF JobOK, Job, Page, Faults
<1>3. job[p].page \in 0 .. MaxPages + 1 /\ job[p].page # MaxPages /\ job[p].page # MaxPages + 1
  BY <1>2 DEF Page
<1>4. PICK v : v = job[p].page
  OBVIOUS
<1>5. CASE job[p].what = "copy"
  <2>1. PICK q : q = job[p].child
    OBVIOUS
  <2>2. q # 0 /\ q \in Proc /\ pc[q] = "embryo" /\ Copied(q, v)
    BY <1>1, <1>4, <1>5, <2>1 DEF JobOK, PagingInv, Children, Job, Proc, Tidy
  <2>3. job[q] = NoJob
    BY <2>2 DEF PagingInv, Jobs, JobOK
  <2>4. pte[q][v].at = Null
    <3>1. ~(v < v)
      BY <1>2, <1>4 DEF Page
    <3> QED  BY <1>2, <1>4, <2>2, <3>1 DEF Copied
  <2>5. ASSUME NEW r \in Proc, job[r].child = q PROVE r = p
    BY <2>1, <2>2, <2>5 DEF PagingInv, Children
  <2>6. \A f \in Frame : ~Fills(f, q, v)
    BY <1>2, <1>3, <1>4, <2>3, <2>4, <2>5, NoJobTyped DEF Fills
  <2> QED  BY <1>3, <1>4, <2>2, <2>6, SlotLeft
<1>6. CASE job[p].what \in {"fault", "in"}
  <2>1. pte[p][v].at \notin Frame
    BY <1>1, <1>4, <1>6 DEF JobOK, Tidy
  <2>2. ASSUME NEW r \in Proc, job[r].child = p PROVE FALSE
    <3>1. p # 0
      OBVIOUS
    <3>2. pc[job[r].child] = "embryo"
      BY <2>2, <3>1 DEF PagingInv, Children
    <3> QED  BY <2>2, <3>2
  <2>3. \A f \in Frame : ~Fills(f, p, v)
    BY <1>2, <1>3, <1>4, <2>1, <2>2 DEF Fills
  <2> QED  BY <1>3, <1>4, <2>3, SlotLeft
<1> QED  BY <1>2, <1>5, <1>6 DEF Faults

LEMMA Idle == \A l \in {"unused", "embryo", "user"} : \A t, s : JobOK(l, NoJob, t, s)
  BY NoJobTyped DEF JobOK, Faults

\* freevm(): what the tables of q held is free, and nothing else.
LEMMA FreevmTyped ==
    ASSUME TypeOK, NEW q \in Proc, freevm(q)
    PROVE  /\ free' \subseteq Frame /\ freedisk' \subseteq Disk /\ mem' \in [Frame -> Data]
           /\ dir' \in [Proc -> Frame \cup {Null}]
           /\ tab' \in [Proc -> [Region -> Frame \cup {Null}]]
           /\ pte' \in [Proc -> [Page -> Pte]]
           /\ \A o \in Proc \ {q} : dir'[o] = dir[o] /\ tab'[o] = tab[o] /\ pte'[o] = pte[o]
           /\ dir'[q] = Null /\ (\A r \in Region : tab'[q][r] = Null)
           /\ \A v \in Page : pte'[q][v] = NoPte
<1>1. /\ free' = free \cup {f \in Frame : \/ dir[q] = f \/ \E r \in Region : tab[q][r] = f
                                          \/ \E v \in Page : pte[q][v].at = f}
      /\ mem' = [f \in Frame |-> IF f \in free' \ free THEN Junk ELSE mem[f]]
      /\ freedisk' = freedisk \cup {d \in Disk : \E v \in Page : pte[q][v].at = d}
      /\ dir' = [dir EXCEPT ![q] = Null]
      /\ tab' = [tab EXCEPT ![q] = [r \in Region |-> Null]]
      /\ pte' = [pte EXCEPT ![q] = [v \in Page |-> NoPte]]
  BY DEF freevm
<1>2. free' \subseteq Frame /\ freedisk' \subseteq Disk
  BY <1>1 DEF TypeOK
<1>3. mem' \in [Frame -> Data]
  BY <1>1 DEF TypeOK, Data
<1>4. /\ dir' \in [Proc -> Frame \cup {Null}]
      /\ dir'[q] = Null /\ \A o \in Proc \ {q} : dir'[o] = dir[o]
  BY <1>1 DEF TypeOK
<1>5. /\ tab' \in [Proc -> [Region -> Frame \cup {Null}]]
      /\ (\A r \in Region : tab'[q][r] = Null) /\ \A o \in Proc \ {q} : tab'[o] = tab[o]
  BY <1>1 DEF TypeOK
<1>6. /\ pte' \in [Proc -> [Page -> Pte]]
      /\ (\A v \in Page : pte'[q][v] = NoPte) /\ \A o \in Proc \ {q} : pte'[o] = pte[o]
  BY <1>1, NoJobTyped DEF TypeOK
<1> QED  BY <1>2, <1>3, <1>4, <1>5, <1>6

Tables(q) == {<<"dir", q>>} \cup {<<"tab", q, r>> : r \in Region} \cup {<<"pte", q, v>> : v \in Page}

LEMMA TablesIn == ASSUME NEW q \in Proc PROVE Tables(q) \in SUBSET Place
  BY PlaceIs DEF Tables

LEMMA FreevmAvail ==
    ASSUME TypeOK, NEW q \in Proc, freevm(q), NEW r \in Resource
    PROVE  r \in Avail' <=> (r \in Avail \/ \E x \in Tables(q) : Held[x] = r)
<1>1. (\E x \in Tables(q) : Held[x] = r) <=>
         \/ dir[q] = r \/ (\E s \in Region : tab[q][s] = r) \/ (\E v \in Page : pte[q][v].at = r)
  <2>1. ASSUME NEW x \in Tables(q), Held[x] = r
        PROVE  dir[q] = r \/ (\E s \in Region : tab[q][s] = r) \/ (\E v \in Page : pte[q][v].at = r)
    <3>1. CASE x = <<"dir", q>>
      BY <2>1, <3>1, PlaceIs
    <3>2. ASSUME NEW s \in Region, x = <<"tab", q, s>> PROVE tab[q][s] = r
      BY <2>1, <3>2, PlaceIs
    <3>3. ASSUME NEW v \in Page, x = <<"pte", q, v>> PROVE pte[q][v].at = r
      BY <2>1, <3>3, PlaceIs
    <3> QED  BY <3>1, <3>2, <3>3 DEF Tables
  <2>2. /\ <<"dir", q>> \in Tables(q) /\ Held[<<"dir", q>>] = dir[q]
        /\ \A s \in Region : <<"tab", q, s>> \in Tables(q) /\ Held[<<"tab", q, s>>] = tab[q][s]
        /\ \A v \in Page : <<"pte", q, v>> \in Tables(q) /\ Held[<<"pte", q, v>>] = pte[q][v].at
    BY PlaceIs DEF Tables
  <2> QED  BY <2>1, <2>2
<1>2. r \in free' <=> r \in free \/ (r \in Frame /\
         \/ dir[q] = r \/ (\E s \in Region : tab[q][s] = r) \/ (\E v \in Page : pte[q][v].at = r))
  BY DEF freevm, TypeOK
<1>3. r \in freedisk' <=> r \in freedisk \/ (r \in Disk /\ (\E v \in Page : pte[q][v].at = r))
  BY DEF freevm, TypeOK
<1>4. r \in Disk => dir[q] # r /\ \A s \in Region : tab[q][s] # r
  BY Typing, Constants
<1> QED  BY <1>1, <1>2, <1>3, <1>4 DEF Avail, Resource

LEMMA FreevmOwned ==
    ASSUME PagingInv, NEW q \in Proc, freevm(q),
           \A o \in Proc : job'[o].disk = job[o].disk /\ job'[o].got \in {job[o].got, Null}
    PROVE  /\ Owned(Held, Avail)'
           /\ Whole(Held, Avail) /\ (\A o \in Proc : job'[o].got = job[o].got)
                => Whole(Held, Avail)'
<1> DEFINE D == Tables(q)
           S == D \cup {<<"got", o>> : o \in Proc}
<1>1. D \in SUBSET Place
  BY TablesIn
<1>2. TypeOK
  BY DEF PagingInv
<1>3. /\ \A o \in Proc \ {q} : dir'[o] = dir[o] /\ tab'[o] = tab[o] /\ pte'[o] = pte[o]
      /\ dir'[q] = Null /\ (\A r \in Region : tab'[q][r] = Null)
      /\ \A v \in Page : pte'[q][v].at = Null
  BY <1>2, FreevmTyped DEF NoPte, Entry
<1>4. \A x \in D : Held'[x] = Null
  <2>1. Held'[<<"dir", q>>] = Null
    BY <1>3, PlaceIs DEF Held
  <2>2. \A r \in Region : Held'[<<"tab", q, r>>] = Null
    BY <1>3, PlaceIs DEF Held
  <2>3. \A v \in Page : Held'[<<"pte", q, v>>] = Null
    BY <1>3, PlaceIs DEF Held
  <2> QED  BY <2>1, <2>2, <2>3 DEF Tables
<1>5. \A x \in Place \ S : Held'[x] = Held[x]
  <2>1. /\ \A o \in Proc : <<"dir", o>> \in S \/ dir'[o] = dir[o]
        /\ \A o \in Proc : <<"got", o>> \in S \/ job'[o].got = job[o].got
        /\ \A o \in Proc : <<"disk", o>> \in S \/ job'[o].disk = job[o].disk
        /\ \A o \in Proc, r \in Region : <<"tab", o, r>> \in S \/ tab'[o][r] = tab[o][r]
        /\ \A o \in Proc, v \in Page : <<"pte", o, v>> \in S \/ pte'[o][v].at = pte[o][v].at
    BY <1>3 DEF Tables
  <2> HIDE DEF S
  <2> QED  BY <2>1, HeldKept
<1>6. \A o \in Proc : Held'[<<"got", o>>] = job'[o].got /\ Held[<<"got", o>>] = job[o].got
  BY PlaceIs DEF Held
<1>7. \A x \in Place \ D : Held'[x] = Held[x] \/ Held'[x] \notin Resource
  BY <1>5, <1>6, NullHeld
<1>8. (\A o \in Proc : job'[o].got = job[o].got) => \A x \in Place \ D : Held'[x] = Held[x]
  BY <1>5, <1>6
<1>9. \A x \in D : Held'[x] \notin Resource
  BY <1>4, NullHeld
<1>10. \A r \in Resource : r \in Avail' <=> (r \in Avail \/ \E x \in D : Held[x] = r)
  BY <1>2, FreevmAvail
<1> HIDE DEF D
<1> QED  BY <1>1, <1>7, <1>8, <1>9, <1>10, GiveStep DEF PagingInv

LEMMA ExitStep ==
    ASSUME PagingInv, NEW p \in Proc, exit(p)
    PROVE  PagingInv' /\ (OwnedInv => OwnedInv')
<1>1. /\ pc[p] = "user" /\ freevm(p) /\ pc' = [pc EXCEPT ![p] = "unused"]
      /\ sz' = [sz EXCEPT ![p] = 0] /\ stale' = [stale EXCEPT ![p] = NoStale]
      /\ val' = [val EXCEPT ![p] = [v \in Page |-> Zero]]
      /\ UNCHANGED <<disk, job, files, stopped>>
  BY DEF exit, At, goto
<1>2. TypeOK
  BY DEF PagingInv
<1>3. /\ free' \subseteq Frame /\ freedisk' \subseteq Disk /\ mem' \in [Frame -> Data]
      /\ dir' \in [Proc -> Frame \cup {Null}]
      /\ tab' \in [Proc -> [Region -> Frame \cup {Null}]]
      /\ pte' \in [Proc -> [Page -> Pte]]
      /\ \A o \in Proc \ {p} : dir'[o] = dir[o] /\ tab'[o] = tab[o] /\ pte'[o] = pte[o]
      /\ dir'[p] = Null /\ (\A r \in Region : tab'[p][r] = Null)
      /\ \A v \in Page : pte'[p][v] = NoPte
  BY <1>1, <1>2, FreevmTyped
<1>4. TypeOK'
  <2>1. NoStale \in [Page -> Frame \cup {Null}] /\ [v \in Page |-> Zero] \in [Page -> Data]
    BY DEF NoStale, Data
  <2>2. /\ stale' \in [Proc -> [Page -> Frame \cup {Null}]]
        /\ val' \in [Proc -> [Page -> Data]]
    BY <1>1, <2>1 DEF PagingInv, TypeOK
  <2>3. sz' \in [Proc -> 0 .. MaxPages] /\ pc' \in [Proc -> PC]
    BY <1>1, Constants DEF PagingInv, TypeOK, PC
  <2> QED  BY <1>1, <1>3, <2>2, <2>3 DEF PagingInv, TypeOK
<1>5. /\ pc'[p] = "unused" /\ sz'[p] = 0
      /\ \A o \in Proc \ {p} : pc'[o] = pc[o] /\ sz'[o] = sz[o]
  BY <1>1 DEF PagingInv, TypeOK
<1>6. job[p] = NoJob
  BY <1>1 DEF PagingInv, Jobs, JobOK
<1>7. Jobs' /\ Children'
  <2>1. JobOK(pc'[p], job'[p], pte'[p], sz'[p])
    BY <1>1, <1>5, <1>6, Idle
  <2>2. \A o \in Proc \ {p} : /\ pc'[o] = pc[o] /\ job'[o] = job[o]
                              /\ pte'[o] = pte[o] /\ sz'[o] = sz[o]
    BY <1>1, <1>3, <1>5
  <2>3. pc[p] # "embryo" /\ job'[p].child \in {0, job[p].child}
    BY <1>1
  <2> QED  BY <2>1, <2>2, <2>3, OthersKept
<1>8. Owned(Held, Avail)' /\ (Whole(Held, Avail) => Whole(Held, Avail)')
  BY <1>1, FreevmOwned
<1>9. Tidy => Tidy'
  <2> SUFFICES ASSUME Tidy PROVE Tidy'
    OBVIOUS
  <2>1. \A o \in Proc : Live(o)' => o # p /\ Live(o)
    BY <1>5 DEF Live
  <2>2. \A o \in Proc \ {p} : \A n : Copied(o, n) => Copied(o, n)'
    BY <1>3 DEF Copied
  <2>3. Copied(p, 0)'
    BY <1>3, Constants DEF Copied, NoPte, Entry, Page
  <2>4. \A o \in Proc : pc'[o] = "unused" =>
           dir'[o] = Null /\ (\A r \in Region : tab'[o][r] = Null) /\ Copied(o, 0)'
    BY <1>3, <1>5, <2>2, <2>3 DEF Tidy
  <2>5. \A o \in Proc : Live(o)' => tab'[o]["near"] # Null /\ sz'[o] >= 3
    BY <1>3, <1>5, <2>1 DEF Tidy
  <2>6. \A o \in Proc, w \in Page : pte'[o][w].at \in Frame /\ w # Guard => pte'[o][w].u = TRUE
    <3>1. NoPte.at \notin Frame
      BY Constants DEF NoPte, Entry
    <3> QED  BY <1>3, <3>1 DEF Tidy, Present
  <2>7. "fork" \in Ops => \A o \in Proc, w \in Page : Live(o)' /\ w < sz'[o] => pte'[o][w].at # Null
    <3>1. "fork" \in Ops => \A o \in Proc, w \in Page : Live(o) /\ w < sz[o] => pte[o][w].at # Null
      BY DEF Tidy
    <3> QED  BY <1>3, <1>5, <2>1, <3>1
  <2>8. \A o \in Proc : /\ job'[o].what = "fault" =>
                              job'[o].page # Guard /\ pte'[o][job'[o].page].at \notin Frame
                        /\ job'[o].what = "copy" =>
                              job'[o].pte.at \in Frame /\ (job'[o].page # Guard => job'[o].pte.u = TRUE)
    BY <1>1, <1>3, <1>6, NoJobTyped DEF Tidy
  <2>9. (\A o \in Proc : job[o].child # 0 => Copied(job[o].child, job[o].page))'
    <3>1. ASSUME NEW o \in Proc, job[o].child # 0
          PROVE  /\ \A w \in Page : (w < job[o].page) <=> (pte'[job[o].child][w].at # Null)
                 /\ job[o].page > 0 => tab'[job[o].child]["near"] # Null
      <4>1. job[o].child \in Proc /\ pc[job[o].child] = "embryo"
        BY <3>1, Typing DEF PagingInv, Children, Job, Proc
      <4>2. job[o].child # p
        BY <1>1, <4>1
      <4>3. Copied(job[o].child, job[o].page)
        BY <3>1 DEF Tidy
      <4>4. UNCHANGED <<tab[job[o].child], pte[job[o].child]>>
        BY <1>1, <1>3, <4>1, <4>2
      <4> QED  BY <1>1, <4>3, <4>4 DEF Copied
    <3> QED  BY <1>1, <3>1 DEF Copied
  <2> QED  BY <2>4, <2>5, <2>6, <2>7, <2>8, <2>9 DEF Tidy, Present
<1> QED  BY <1>4, <1>7, <1>8, <1>9 DEF PagingInv, OwnedInv

\* A fork() that ends, with its child made or given up.
ForkEnd(p, q, l) ==
    /\ q = job[p].child /\ q # p /\ pc[q] = "embryo"
    /\ job' = [job EXCEPT ![p] = NoJob] /\ pc' = [pc EXCEPT ![p] = "user", ![q] = l]
    /\ \A o \in Proc \ {q} : pte'[o] = pte[o] /\ sz'[o] = sz[o]

LEMMA ForkEnds ==
    ASSUME PagingInv, NEW p \in Proc, NEW q \in Proc, NEW l \in {"unused", "user"},
           ForkEnd(p, q, l)
    PROVE  /\ job' \in [Proc -> Job] /\ pc' \in [Proc -> PC] /\ Jobs' /\ Children'
           /\ job'[p] = NoJob /\ job[q] = NoJob /\ \A o \in Proc \ {p} : job'[o] = job[o]
           /\ pc'[p] = "user" /\ pc'[q] = l /\ \A o \in Proc \ {p, q} : pc'[o] = pc[o]
           /\ \A o \in Proc \ {p} : job[o].child # q
<1> USE DEF ForkEnd
<1>1. /\ job' \in [Proc -> Job] /\ pc' \in [Proc -> PC]
      /\ job'[p] = NoJob /\ \A o \in Proc \ {p} : job'[o] = job[o]
      /\ pc'[p] = "user" /\ pc'[q] = l /\ \A o \in Proc \ {p, q} : pc'[o] = pc[o]
  BY NoJobTyped DEF PagingInv, TypeOK, Job, PC
<1>2. job[q] = NoJob
  BY DEF PagingInv, Jobs, JobOK
<1>3. \A o \in Proc \ {p} : job[o].child # q
  BY Constants DEF PagingInv, Children
<1>4. ASSUME NEW o \in Proc PROVE JobOK(pc'[o], job'[o], pte'[o], sz'[o])
  <2>1. CASE o = p \/ o = q
    BY <1>1, <1>2, <2>1, Idle
  <2>2. CASE o \notin {p, q}
    BY <1>1, <2>2 DEF PagingInv, Jobs
  <2> QED  BY <2>1, <2>2
<1>5. ASSUME NEW o \in Proc, job'[o].child # 0 PROVE pc'[job'[o].child] = "embryo"
  <2>1. o # p /\ job'[o] = job[o]
    BY <1>1, <1>5, NoJobTyped
  <2>2. pc[job[o].child] = "embryo" /\ job[o].child \in Proc
    BY <1>5, <2>1, Typing DEF PagingInv, Children, Job, Proc
  <2>3. job[o].child # q
    BY <1>3, <2>1
  <2>4. job[o].child # p
    <3>1. pc[p] # "embryo"
      BY NoJobTyped, Constants DEF PagingInv, Jobs, JobOK
    <3> QED  BY <2>2, <3>1
  <2> QED  BY <1>1, <2>1, <2>2, <2>3, <2>4
<1>6. \A o, r \in Proc : job'[o].child = job'[r].child /\ o # r => job'[o].child = 0
  <2>1. \A o \in Proc : job'[o].child \in {0, job[o].child}
    BY <1>1, NoJobTyped
  <2> QED  BY <2>1 DEF PagingInv, Children
<1> QED  BY <1>1, <1>2, <1>3, <1>4, <1>5, <1>6 DEF Jobs, Children

LEMMA CopyFails ==
    ASSUME PagingInv, NEW p \in Proc, copy_fails(p)
    PROVE  PagingInv' /\ (Tame /\ OwnedInv => ~NearOnly)
<1>1. PICK q : q = job[p].child
  OBVIOUS
<1>2. /\ pc[p] = "have" /\ job[p].what = "copy" /\ freevm(q)
      /\ tab[q][Regn(job[p].page)] = Null /\ free = {}
      /\ job' = [job EXCEPT ![p] = NoJob]
      /\ pc' = [pc EXCEPT ![p] = "user", ![q] = "unused"]
      /\ UNCHANGED <<disk, sz, stale, files, val, stopped>>
  BY <1>1 DEF copy_fails, At
<1>3. /\ q \in Proc /\ q # p /\ pc[q] = "embryo" /\ "fork" \in Ops
  BY <1>1, <1>2, CopyFacts
<1>4. /\ free' \subseteq Frame /\ freedisk' \subseteq Disk /\ mem' \in [Frame -> Data]
      /\ dir' \in [Proc -> Frame \cup {Null}]
      /\ tab' \in [Proc -> [Region -> Frame \cup {Null}]]
      /\ pte' \in [Proc -> [Page -> Pte]]
      /\ \A o \in Proc \ {q} : dir'[o] = dir[o] /\ tab'[o] = tab[o] /\ pte'[o] = pte[o]
  <2>1. TypeOK
    BY DEF PagingInv
  <2> QED  BY <1>2, <1>3, <2>1, FreevmTyped
<1>5. /\ job' \in [Proc -> Job] /\ pc' \in [Proc -> PC] /\ Jobs' /\ Children'
      /\ job'[p] = NoJob /\ \A o \in Proc \ {p} : job'[o] = job[o]
  <2>1. ForkEnd(p, q, "unused")
    BY <1>1, <1>2, <1>3, <1>4 DEF ForkEnd
  <2> QED  BY <1>3, <2>1, ForkEnds
<1>6. TypeOK'
  BY <1>2, <1>4, <1>5 DEF PagingInv, TypeOK, Job
<1>7. Owned(Held, Avail)'
  <2>1. job[p].disk = Null
    BY <1>2, HaveFacts
  <2>2. \A o \in Proc : job'[o].disk = job[o].disk /\ job'[o].got \in {job[o].got, Null}
    BY <1>5, <2>1, NoJobTyped
  <2> QED  BY <1>2, <1>3, <2>2, FreevmOwned
<1>8. Tame /\ OwnedInv => ~NearOnly
  <2>1. Tame => tab[q]["near"] = Null
    BY <1>2 DEF Tame, Regn
  <2> QED  BY <1>2, <1>3, <2>1, FrameLeft DEF OwnedInv
<1> QED  BY <1>5, <1>6, <1>7, <1>8 DEF PagingInv

LEMMA ForkDone ==
    ASSUME PagingInv, NEW p \in Proc, fork_done(p)
    PROVE  PagingInv' /\ (OwnedInv => OwnedInv')
<1>1. PICK q : q = job[p].child
  OBVIOUS
<1>2. /\ pc[p] = "copy" /\ job[p].page = sz[p]
      /\ sz' = [sz EXCEPT ![q] = sz[p]] /\ val' = [val EXCEPT ![q] = val[p]]
      /\ job' = [job EXCEPT ![p] = NoJob]
      /\ pc' = [pc EXCEPT ![p] = "user", ![q] = "user"]
      /\ UNCHANGED <<free, freedisk, mem, disk, dir, tab, pte, stale, files, stopped>>
  BY <1>1 DEF fork_done, At
<1>3. JobOK("copy", job[p], pte[p], sz[p]) /\ job[p] \in Job
  BY <1>2, Typing DEF PagingInv, Jobs
<1>4. q \in Proc /\ q # p /\ pc[q] = "embryo"
  <2>1. q # 0
    BY <1>1, <1>3 DEF JobOK
  <2> QED  BY <1>1, <1>2, <1>3, <2>1 DEF PagingInv, Children, Job, Proc
<1>5. sz'[q] = sz[p] /\ \A o \in Proc \ {q} : pte'[o] = pte[o] /\ sz'[o] = sz[o]
  BY <1>2, <1>4 DEF PagingInv, TypeOK
<1>6. /\ job' \in [Proc -> Job] /\ pc' \in [Proc -> PC] /\ Jobs' /\ Children'
      /\ job'[p] = NoJob /\ job[q] = NoJob /\ \A o \in Proc \ {p} : job'[o] = job[o]
      /\ pc'[p] = "user" /\ pc'[q] = "user" /\ \A o \in Proc \ {p, q} : pc'[o] = pc[o]
      /\ \A o \in Proc \ {p} : job[o].child # q
  <2>1. ForkEnd(p, q, "user")
    BY <1>1, <1>2, <1>4, <1>5 DEF ForkEnd
  <2> QED  BY <1>4, <2>1, ForkEnds
<1>7. TypeOK'
  BY <1>2, <1>4, <1>6 DEF PagingInv, TypeOK, Job
<1>8. Owned(Held, Avail)' /\ (Whole(Held, Avail) => Whole(Held, Avail)')
  <2>1. job[p].got = Null /\ job[p].disk = Null
    BY <1>3 DEF JobOK
  <2>2. \A o \in Proc : job'[o].got = job[o].got /\ job'[o].disk = job[o].disk
    BY <1>6, <2>1, NoJobTyped
  <2>3. \A x \in Place \ {} : Held'[x] = Held[x]
    BY <1>2, <2>2, HeldKept
  <2>4. UNCHANGED Avail
    BY <1>2 DEF Avail
  <2> QED  BY <2>3, <2>4, DropStep DEF PagingInv
<1>9. Tidy => Tidy'
  <2> SUFFICES ASSUME Tidy PROVE Tidy'
    OBVIOUS
  <2>1. \A o \in Proc : Live(o)' => o = q \/ Live(o)
    BY <1>2, <1>6 DEF Live
  <2>2. \A o \in Proc : \A n : Copied(o, n) => Copied(o, n)'
    BY <1>2 DEF Copied
  <2>3. Copied(q, sz[p])
    BY <1>1, <1>2, <1>4, Constants DEF Tidy
  <2>4. sz[p] >= 3 /\ sz[p] \in 0 .. MaxPages
    BY <1>2, Typing DEF PagingInv, Tidy, Live
  <2>5. \A o \in Proc : pc'[o] = "unused" =>
           dir'[o] = Null /\ (\A r \in Region : tab'[o][r] = Null) /\ Copied(o, 0)'
    BY <1>2, <1>6, <2>2 DEF Tidy
  <2>6. \A o \in Proc : Live(o)' => tab'[o]["near"] # Null /\ sz'[o] >= 3
    BY <1>2, <1>5, <2>1, <2>3, <2>4 DEF Tidy, Copied
  <2>7. \A o \in Proc, w \in Page : pte'[o][w].at \in Frame /\ w # Guard => pte'[o][w].u = TRUE
    BY <1>2 DEF Tidy, Present
  <2>8. "fork" \in Ops => \A o \in Proc, w \in Page : Live(o)' /\ w < sz'[o] => pte'[o][w].at # Null
    <3>1. "fork" \in Ops => \A o \in Proc, w \in Page : Live(o) /\ w < sz[o] => pte[o][w].at # Null
      BY DEF Tidy
    <3>2. \A w \in Page : w < sz[p] => pte[q][w].at # Null
      BY <2>3 DEF Copied
    <3> QED  BY <1>2, <1>5, <2>1, <3>1, <3>2
  <2>9. \A o \in Proc : /\ job'[o].what = "fault" =>
                              job'[o].page # Guard /\ pte'[o][job'[o].page].at \notin Frame
                        /\ job'[o].what = "copy" =>
                              job'[o].pte.at \in Frame /\ (job'[o].page # Guard => job'[o].pte.u = TRUE)
    BY <1>2, <1>6, NoJobTyped DEF Tidy
  <2>10. (\A o \in Proc : job[o].child # 0 => Copied(job[o].child, job[o].page))'
    <3>1. ASSUME NEW o \in Proc, job'[o].child # 0
          PROVE  /\ \A w \in Page : (w < job'[o].page) <=> (pte[job'[o].child][w].at # Null)
                 /\ job'[o].page > 0 => tab[job'[o].child]["near"] # Null
      <4>1. job'[o] = job[o]
        BY <1>6, <3>1, NoJobTyped
      <4> QED  BY <3>1, <4>1 DEF Tidy, Copied
    <3> QED  BY <1>2, <3>1 DEF Copied
  <2> QED  BY <2>5, <2>6, <2>7, <2>8, <2>9, <2>10 DEF Tidy, Present
<1> QED  BY <1>6, <1>7, <1>8, <1>9 DEF PagingInv, OwnedInv

-----------------------------------------------------------------------------
(* Every step.                                                             *)

LEMMA NearOnlyStep ==
    ASSUME PagingInv, Tame, NearOnly, [Next]_vars
    PROVE  NearOnly'
<1> USE Constants
<1>1. tab \in [Proc -> [Region -> Frame \cup {Null}]] /\ TypeOK
  BY DEF PagingInv, TypeOK
<1>2. \A v : Regn(v) = "near"
  BY DEF Tame, Regn
<1>3. ASSUME NEW p \in Proc, NEW f, tab' = [tab EXCEPT ![p]["near"] = f] PROVE NearOnly'
  <2>1. \A o \in Proc : tab'[o]["far"] = tab[o]["far"]
    <3>1. tab' = [tab EXCEPT ![p] = [tab[p] EXCEPT !["near"] = f]]
      BY <1>3
    <3>2. [tab[p] EXCEPT !["near"] = f]["far"] = tab[p]["far"]
      BY <1>1 DEF Region
    <3> QED  BY <1>1, <3>1, <3>2
  <2> QED  BY <2>1 DEF NearOnly
<1>4. ASSUME NEW p \in Proc, freevm(p) PROVE NearOnly'
  <2>1. /\ \A o \in Proc \ {p} : tab'[o] = tab[o]
        /\ \A r \in Region : tab'[p][r] = Null
    BY <1>1, <1>4, FreevmTyped
  <2> QED  BY <2>1 DEF NearOnly, Region
<1>5. ASSUME UNCHANGED tab PROVE NearOnly'
  BY <1>5 DEF NearOnly
<1>6. ASSUME NEW p \in Proc, NEW v \in Page, sys_swap(p, v) PROVE NearOnly'
  <2>1. tab' = [tab EXCEPT ![p]["near"] = NextFree] \/ UNCHANGED tab
    BY <1>2, <1>6 DEF sys_swap, Stop
  <2> QED  BY <1>3, <1>5, <2>1
<1>7. ASSUME NEW p \in Proc, copy_page(p) PROVE NearOnly'
  <2>1. PICK q : q = job[p].child
    OBVIOUS
  <2>2. q \in Proc
    BY <1>7, <2>1, CopyFacts DEF copy_page, At
  <2>3. tab' = [tab EXCEPT ![q]["near"] = NextFree] \/ UNCHANGED tab
    BY <1>2, <1>7, <2>1 DEF copy_page
  <2> QED  BY <1>3, <1>5, <2>2, <2>3
<1>8. ASSUME NEW p \in Proc, copy_fails(p) PROVE NearOnly'
  <2>1. freevm(job[p].child) /\ job[p].child \in Proc
    BY <1>8, CopyFacts DEF copy_fails, At
  <2> QED  BY <1>4, <2>1
<1>9. ASSUME NEW p \in Proc, exit(p) PROVE NearOnly'
  BY <1>4, <1>9 DEF exit
<1>10. ASSUME NEW p \in Proc, NEW v, NEW w, NEW q,
              \/ Touch(p, v, w) \/ handle_pgfault(p, v) \/ fork(p, q) \/ switchuvm(p) \/ sbrk(p)
       PROVE  NearOnly'
  BY <1>5, <1>10 DEF Touch, handle_pgfault, fork, switchuvm, sbrk
<1>11. ASSUME NEW p \in Proc,
              \/ kalloc(p) \/ swap_page(p) \/ swap_page_from_pte(p) \/ kalloc_again(p)
              \/ map_nothing(p) \/ map_swapped(p) \/ map_zeroed(p) \/ copyuvm(p) \/ copy_in(p)
              \/ fork_done(p)
       PROVE  NearOnly'
  BY <1>5, <1>11 DEF kalloc, swap_page, swap_page_from_pte, kalloc_again, map_nothing,
     map_swapped, map_zeroed, copyuvm, copy_in, fork_done, Stop
<1>12. ASSUME Stopped \/ UNCHANGED vars PROVE NearOnly'
  BY <1>5, <1>12 DEF Stopped, vars
<1> QED  BY <1>6, <1>7, <1>8, <1>9, <1>10, <1>11, <1>12 DEF Next

LEMMA Stutter == ASSUME PagingInv, UNCHANGED vars PROVE PagingInv' /\ (OwnedInv => OwnedInv')
<1>1. /\ UNCHANGED <<free, freedisk, mem, disk, dir, tab, pte, sz, stale, pc, job, files, val, stopped>>
  BY DEF vars
<1>2. TypeOK' /\ Jobs' /\ Children'
  BY <1>1 DEF PagingInv, TypeOK, Jobs, Children, JobOK
<1>3. UNCHANGED <<Held, Avail>>
  BY <1>1 DEF Held, Avail
<1>4. Owned(Held, Avail)' /\ (Whole(Held, Avail) => Whole(Held, Avail)')
  BY <1>3 DEF PagingInv, Owned, Whole
<1>5. Tidy => Tidy'
  BY <1>1 DEF Tidy, Copied, Live, Present
<1> QED  BY <1>2, <1>4, <1>5 DEF PagingInv, OwnedInv

LEMMA Step ==
    ASSUME PagingInv, [Next]_vars
    PROVE  PagingInv' /\ (Tame /\ NearOnly /\ OwnedInv => OwnedInv')
<1>1. ASSUME NEW p \in Proc, NEW v \in Touchable(p), NEW write \in BOOLEAN, Touch(p, v, write)
      PROVE  PagingInv' /\ (Tame /\ OwnedInv => OwnedInv')
  BY <1>1, UserStep
<1>2. ASSUME NEW p \in Proc, switchuvm(p) \/ sbrk(p)
      PROVE  PagingInv' /\ (Tame /\ OwnedInv => OwnedInv')
  BY <1>2, UserStep
<1>3. ASSUME NEW p \in Proc, NEW v \in Touchable(p), handle_pgfault(p, v)
      PROVE  PagingInv' /\ (Tame /\ OwnedInv => OwnedInv')
  BY <1>3, FaultStep
<1>4. ASSUME NEW p \in Proc, NEW v \in Page, sys_swap(p, v)
      PROVE  PagingInv' /\ (OwnedInv => OwnedInv')
  BY <1>4, SwapStep
<1>5. ASSUME NEW p \in Proc, NEW q \in Proc, fork(p, q)
      PROVE  PagingInv' /\ (OwnedInv => OwnedInv')
  BY <1>5, ForkStep
<1>6. ASSUME NEW p \in Proc, copy_fails(p)
      PROVE  PagingInv' /\ (Tame /\ OwnedInv => ~NearOnly)
  BY <1>6, CopyFails
<1>7. ASSUME NEW p \in Proc, map_nothing(p) \/ copyuvm(p) \/ copy_page(p) \/ swap_page_from_pte(p)
      PROVE  PagingInv' /\ (Tame /\ OwnedInv => OwnedInv')
  BY <1>7, NothingStep, LookUpStep, CopyStep, WriteStep
<1>8. ASSUME NEW p \in Proc,
             \/ exit(p) \/ kalloc(p) \/ kalloc_again(p) \/ swap_page(p)
             \/ map_swapped(p) \/ copy_in(p) \/ map_zeroed(p) \/ fork_done(p)
      PROVE  PagingInv' /\ (OwnedInv => OwnedInv')
  BY <1>8, ExitStep, KallocStep, VictimStep, ReadStep, ZeroedStep, ForkDone
<1>9. ASSUME Stopped \/ UNCHANGED vars PROVE PagingInv' /\ (OwnedInv => OwnedInv')
  BY <1>9, Stutter DEF Stopped
<1> QED  BY <1>1, <1>2, <1>3, <1>4, <1>5, <1>6, <1>7, <1>8, <1>9 DEF Next

\* In every reachable state the local variables of a process fit what it is
\* doing and no frame and no disk page is in two places.
THEOREM Invariant == Spec => []PagingInv
<1>1. PagingInv /\ [Next]_vars => PagingInv'
  BY Step
<1> QED  BY <1>1, Initially, PTL DEF Spec

-----------------------------------------------------------------------------
(* The owners, counted.                                                    *)

LEMMA AtMostOne ==
    ASSUME NEW S, \A x, y \in S : x = y
    PROVE  Cardinality(S) = IF S = {} THEN 0 ELSE 1
<1>1. CASE S = {}
  BY <1>1, FS_EmptySet
<1>2. CASE S # {}
  <2>1. PICK x : x \in S
    BY <1>2
  <2>2. S = {x}
    BY <2>1
  <2> QED  BY <1>2, <2>2, FS_Singleton
<1> QED  BY <1>1, <1>2

LEMMA FrameCount ==
    ASSUME PagingInv, NEW f \in Frame
    PROVE  FrameOwners(f) <= 1 /\ (Whole(Held, Avail) => FrameOwners(f) = 1)
<1> DEFINE Dirs == {p \in Proc : dir[p] = f}
           Tabs == {x \in Proc \X Region : tab[x[1]][x[2]] = f}
           Ptes == {x \in Proc \X Page : pte[x[1]][x[2]].at = f}
           Gots == {p \in Proc : job[p].got = f}
<1>1. f \in Resource /\ f # Null /\ f \notin Disk
  BY Constants DEF Resource
<1>2. \A x, y \in Place : Held[x] = f /\ Held[y] = f => x = y
  BY <1>1 DEF PagingInv, Owned
<1>3. \A p \in Dirs : p \in Proc /\ <<"dir", p>> \in Place /\ Held[<<"dir", p>>] = f
  BY PlaceIs
<1>4. \A p \in Gots : p \in Proc /\ <<"got", p>> \in Place /\ Held[<<"got", p>>] = f
  BY PlaceIs
<1>5. \A x \in Tabs : /\ x = <<x[1], x[2]>> /\ <<"tab", x[1], x[2]>> \in Place
                      /\ Held[<<"tab", x[1], x[2]>>] = f
  BY PlaceIs
<1>6. \A x \in Ptes : /\ x = <<x[1], x[2]>> /\ <<"pte", x[1], x[2]>> \in Place
                      /\ Held[<<"pte", x[1], x[2]>>] = f
  BY PlaceIs
<1>7. f \in free => \A x \in Place : Held[x] # f
  BY <1>1 DEF PagingInv, Owned, Avail
<1>8. Whole(Held, Avail) => f \in free \/ Dirs # {} \/ Tabs # {} \/ Ptes # {} \/ Gots # {}
  <2> SUFFICES ASSUME Whole(Held, Avail), f \notin free
               PROVE  Dirs # {} \/ Tabs # {} \/ Ptes # {} \/ Gots # {}
    OBVIOUS
  <2>1. f \notin Avail
    BY <1>1 DEF Avail, PagingInv, TypeOK
  <2>2. PICK x \in Place : Held[x] = f
    BY <1>1, <2>1 DEF Whole
  <2>3. ASSUME NEW p \in Proc, x = <<"dir", p>> \/ x = <<"got", p>> \/ x = <<"disk", p>>
        PROVE  p \in Dirs \/ p \in Gots
    <3>1. job[p].disk # f
      BY <1>1, Typing DEF PagingInv, Job
    <3> QED  BY <2>2, <2>3, <3>1, PlaceIs
  <2>4. ASSUME NEW p \in Proc, NEW r \in Region, x = <<"tab", p, r>>
        PROVE  <<p, r>> \in Tabs
    BY <2>2, <2>4, PlaceIs
  <2>5. ASSUME NEW p \in Proc, NEW v \in Page, x = <<"pte", p, v>>
        PROVE  <<p, v>> \in Ptes
    BY <2>2, <2>5, PlaceIs
  <2> QED  BY <2>3, <2>4, <2>5, PlaceCases
<1>9. PICK D, T, P, G : D = Dirs /\ T = Tabs /\ P = Ptes /\ G = Gots
  OBVIOUS
<1>10. FrameOwners(f) = (IF f \in free THEN 1 ELSE 0) + Cardinality(D) + Cardinality(T)
                          + Cardinality(P) + Cardinality(G)
  BY <1>9 DEF FrameOwners
<1> HIDE DEF Dirs, Tabs, Ptes, Gots
<1>11. \A p, q \in D : p = q
  BY <1>2, <1>3, <1>9
<1>12. \A p, q \in G : p = q
  BY <1>2, <1>4, <1>9
<1>13. \A x, y \in T : x = y
  <2> SUFFICES ASSUME NEW x \in T, NEW y \in T PROVE x = y
    OBVIOUS
  <2>1. <<"tab", x[1], x[2]>> = <<"tab", y[1], y[2]>>
    BY <1>2, <1>5, <1>9
  <2>2. x[1] = y[1] /\ x[2] = y[2]
    BY <2>1
  <2> QED  BY <1>5, <1>9, <2>2
<1>14. \A x, y \in P : x = y
  <2> SUFFICES ASSUME NEW x \in P, NEW y \in P PROVE x = y
    OBVIOUS
  <2>1. <<"pte", x[1], x[2]>> = <<"pte", y[1], y[2]>>
    BY <1>2, <1>6, <1>9
  <2>2. x[1] = y[1] /\ x[2] = y[2]
    BY <2>1
  <2> QED  BY <1>6, <1>9, <2>2
<1>15. /\ Cardinality(D) = IF D = {} THEN 0 ELSE 1
       /\ Cardinality(T) = IF T = {} THEN 0 ELSE 1
       /\ Cardinality(P) = IF P = {} THEN 0 ELSE 1
       /\ Cardinality(G) = IF G = {} THEN 0 ELSE 1
  BY <1>11, <1>12, <1>13, <1>14, AtMostOne
<1>16. /\ (D = {} \/ T = {}) /\ (D = {} \/ P = {}) /\ (D = {} \/ G = {})
       /\ (T = {} \/ P = {}) /\ (T = {} \/ G = {}) /\ (P = {} \/ G = {})
  <2>1. \A p \in D, x \in T : <<"dir", p>> = <<"tab", x[1], x[2]>>
    BY <1>2, <1>3, <1>5, <1>9
  <2>2. \A p \in D, x \in P : <<"dir", p>> = <<"pte", x[1], x[2]>>
    BY <1>2, <1>3, <1>6, <1>9
  <2>3. \A p \in D, q \in G : <<"dir", p>> = <<"got", q>>
    BY <1>2, <1>3, <1>4, <1>9
  <2>4. \A x \in T, y \in P : <<"tab", x[1], x[2]>> = <<"pte", y[1], y[2]>>
    BY <1>2, <1>5, <1>6, <1>9
  <2>5. \A x \in T, q \in G : <<"tab", x[1], x[2]>> = <<"got", q>>
    BY <1>2, <1>4, <1>5, <1>9
  <2>6. \A x \in P, q \in G : <<"pte", x[1], x[2]>> = <<"got", q>>
    BY <1>2, <1>4, <1>6, <1>9
  <2>7. /\ \A a, b, c : <<"dir", a>> # <<"tab", b, c>> /\ <<"dir", a>> # <<"pte", b, c>>
        /\ \A a, b, c : <<"tab", a, b>> # <<"got", c>> /\ <<"pte", a, b>> # <<"got", c>>
        /\ \A a, b : <<"dir", a>> # <<"got", b>>
        /\ \A a, b, c, d : <<"tab", a, b>> # <<"pte", c, d>>
    OBVIOUS
  <2> QED  BY <2>1, <2>2, <2>3, <2>4, <2>5, <2>6, <2>7
<1>17. f \in free => D = {} /\ T = {} /\ P = {} /\ G = {}
  BY <1>3, <1>4, <1>5, <1>6, <1>7, <1>9
<1> QED  BY <1>8, <1>9, <1>10, <1>15, <1>16, <1>17

LEMMA DiskCount ==
    ASSUME PagingInv, NEW d \in Disk
    PROVE  DiskOwners(d) <= 1 /\ (Whole(Held, Avail) => DiskOwners(d) = 1)
<1> DEFINE Ptes == {x \in Proc \X Page : pte[x[1]][x[2]].at = d}
           Jbs == {p \in Proc : job[p].disk = d}
<1>1. d \in Resource /\ d # Null /\ d \notin Frame
  BY Constants DEF Resource
<1>2. \A x, y \in Place : Held[x] = d /\ Held[y] = d => x = y
  BY <1>1 DEF PagingInv, Owned
<1>3. \A p \in Jbs : p \in Proc /\ <<"disk", p>> \in Place /\ Held[<<"disk", p>>] = d
  BY PlaceIs
<1>4. \A x \in Ptes : /\ x = <<x[1], x[2]>> /\ <<"pte", x[1], x[2]>> \in Place
                      /\ Held[<<"pte", x[1], x[2]>>] = d
  BY PlaceIs
<1>5. d \in freedisk => \A x \in Place : Held[x] # d
  BY <1>1 DEF PagingInv, Owned, Avail
<1>6. Whole(Held, Avail) => d \in freedisk \/ Ptes # {} \/ Jbs # {}
  <2> SUFFICES ASSUME Whole(Held, Avail), d \notin freedisk PROVE Ptes # {} \/ Jbs # {}
    OBVIOUS
  <2>1. d \notin Avail
    BY <1>1 DEF Avail, PagingInv, TypeOK
  <2>2. PICK x \in Place : Held[x] = d
    BY <1>1, <2>1 DEF Whole
  <2>3. ASSUME NEW p \in Proc, x = <<"dir", p>> \/ x = <<"got", p>> \/ x = <<"disk", p>>
        PROVE  p \in Jbs
    <3>1. job[p].got # d /\ dir[p] # d
      BY <1>1, Typing DEF PagingInv, Job
    <3> QED  BY <2>2, <2>3, <3>1, PlaceIs
  <2>4. ASSUME NEW p \in Proc, NEW r \in Region, x = <<"tab", p, r>> PROVE FALSE
    <3>1. tab[p][r] # d
      BY <1>1, Typing DEF PagingInv
    <3> QED  BY <2>2, <2>4, <3>1, PlaceIs
  <2>5. ASSUME NEW p \in Proc, NEW v \in Page, x = <<"pte", p, v>> PROVE <<p, v>> \in Ptes
    BY <2>2, <2>5, PlaceIs
  <2> QED  BY <2>3, <2>4, <2>5, PlaceCases
<1>7. PICK P, J : P = Ptes /\ J = Jbs
  OBVIOUS
<1>8. DiskOwners(d) = (IF d \in freedisk THEN 1 ELSE 0) + Cardinality(P) + Cardinality(J)
  BY <1>7 DEF DiskOwners
<1> HIDE DEF Ptes, Jbs
<1>9. \A p, q \in J : p = q
  BY <1>2, <1>3, <1>7
<1>10. \A x, y \in P : x = y
  <2> SUFFICES ASSUME NEW x \in P, NEW y \in P PROVE x = y
    OBVIOUS
  <2>1. <<"pte", x[1], x[2]>> = <<"pte", y[1], y[2]>>
    BY <1>2, <1>4, <1>7
  <2>2. x[1] = y[1] /\ x[2] = y[2]
    BY <2>1
  <2> QED  BY <1>4, <1>7, <2>2
<1>11. /\ Cardinality(P) = IF P = {} THEN 0 ELSE 1
       /\ Cardinality(J) = IF J = {} THEN 0 ELSE 1
  BY <1>9, <1>10, AtMostOne
<1>12. P = {} \/ J = {}
  <2>1. \A x \in P, p \in J : <<"pte", x[1], x[2]>> = <<"disk", p>>
    BY <1>2, <1>3, <1>4, <1>7
  <2>2. \A a, b, c : <<"pte", a, b>> # <<"disk", c>>
    OBVIOUS
  <2> QED  BY <2>1, <2>2
<1>13. d \in freedisk => P = {} /\ J = {}
  BY <1>3, <1>4, <1>5, <1>7
<1> QED  BY <1>6, <1>7, <1>8, <1>11, <1>12, <1>13

\* swap_page(), map_address(), copyuvm(), freevm(): no frame and no disk page is
\* given to two owners, whatever else the system lacks or leaks.
THEOREM SharedTheorem == Spec => []NoPageShared
<1>1. PagingInv => NoPageShared
  BY FrameCount, DiskCount DEF NoPageShared
<1> QED  BY <1>1, Invariant, PTL

\* The same calls, where a page table covers every page, nobody touches the guard
\* page, processes fork or grow but not both, and memory is enough for those that
\* fork() makes: no frame and no disk page is lost either.
THEOREM OwnerTheorem == ASSUME Tame PROVE Spec => []EveryPageHasOneOwner
<1>1. Init => OwnedInv /\ NearOnly
  <2>1. Init => NearOnly
    BY DEF Init, NearOnly, Region
  <2> QED  BY <2>1, Initially, InitOwned, InitTidy DEF OwnedInv
<1>2. OwnedInv /\ NearOnly /\ [Next]_vars => (OwnedInv /\ NearOnly)'
  BY Step, NearOnlyStep DEF OwnedInv
<1>3. OwnedInv => EveryPageHasOneOwner
  BY FrameCount, DiskCount DEF OwnedInv, EveryPageHasOneOwner
<1> QED  BY <1>1, <1>2, <1>3, PTL DEF Spec

-----------------------------------------------------------------------------
(* Where a page table covers every page, a page fault ends mapped.         *)

\* The page table that exec() gives a process, or copyuvm() with the first page.
HasTable(q) == tab[q]["near"] # Null

Near ==
    /\ \A p \in Proc : Live(p) => HasTable(p) /\ sz[p] >= 3
    /\ \A p \in Proc : job[p].child # 0 /\ job[p].page > 0 => HasTable(job[p].child)

\* A step that takes no table from a process that runs or is being made.
NearStep ==
    /\ \A o \in Proc : Live(o)' => Live(o) /\ tab'[o] = tab[o] /\ sz'[o] \in {sz[o], sz[o] + 1}
    /\ \A o, r \in Proc : pc[o] = "embryo" /\ job'[r].child = o => tab'[o] = tab[o]
    /\ \A o \in Proc : \/ job'[o].child = 0 \/ job'[o].page = 0
                       \/ job'[o].child = job[o].child /\ job'[o].page = job[o].page

LEMMA NearKept == ASSUME PagingInv, Near, NearStep PROVE Near'
<1>1. \A o \in Proc : Live(o)' => tab'[o]["near"] # Null /\ sz'[o] >= 3
  <2> SUFFICES ASSUME NEW o \in Proc, Live(o)' PROVE tab'[o]["near"] # Null /\ sz'[o] >= 3
    OBVIOUS
  <2>1. Live(o) /\ tab'[o] = tab[o] /\ sz'[o] \in {sz[o], sz[o] + 1}
    BY DEF NearStep
  <2>2. sz[o] >= 3 /\ tab[o]["near"] # Null
    BY <2>1 DEF Near, HasTable
  <2>3. sz[o] \in 0 .. MaxPages
    BY Typing DEF PagingInv
  <2> QED  BY <2>1, <2>2, <2>3, Constants
<1>2. ASSUME NEW o \in Proc, job'[o].child # 0, job'[o].page > 0
      PROVE  tab'[job'[o].child]["near"] # Null
  <2>1. job'[o].child = job[o].child /\ job'[o].page = job[o].page
    BY <1>2 DEF NearStep
  <2>2. job[o].child \in Proc /\ pc[job[o].child] = "embryo"
    BY <1>2, <2>1, Typing DEF PagingInv, Children, Job, Proc
  <2>3. tab'[job[o].child] = tab[job[o].child]
    BY <2>1, <2>2 DEF NearStep
  <2> QED  BY <1>2, <2>1, <2>3 DEF Near, HasTable
<1> QED  BY <1>1, <1>2 DEF Near, HasTable

\* What one process changes of its local variables.
LEMMA NearLocal ==
    ASSUME PagingInv, Near, NEW p \in Proc, NEW l, NEW j, Live(p),
           pc' = [pc EXCEPT ![p] = l], job' = [job EXCEPT ![p] = j], UNCHANGED <<tab, sz>>,
           \/ j.child = 0 \/ j.page = 0
           \/ j.child = job[p].child /\ j.page = job[p].page
    PROVE  Near'
<1>1. job'[p] = j /\ \A o \in Proc \ {p} : job'[o] = job[o] /\ pc'[o] = pc[o]
  BY DEF PagingInv, TypeOK
<1>2. NearStep
  BY <1>1 DEF NearStep, Live
<1> QED  BY <1>2, NearKept

LEMMA NearUpdate ==
    ASSUME PagingInv, Near, NEW p \in Proc, NEW l, NEW w, NEW e, NEW g, NEW v, NEW d, Live(p),
           pc' = [pc EXCEPT ![p] = l], UNCHANGED <<tab, sz>>,
           \/ job' = [job EXCEPT ![p].got = g]
           \/ job' = [job EXCEPT ![p].victim = v, ![p].disk = d]
           \/ job' = [job EXCEPT ![p].what = w, ![p].pte = e]
    PROVE  Near'
<1>1. job[p] \in Job /\ job \in [Proc -> Job]
  BY Typing DEF PagingInv, TypeOK, Job
<1>2. CASE job' = [job EXCEPT ![p].got = g]
  <2>1. PICK j : j = [job[p] EXCEPT !.got = g]
    OBVIOUS
  <2>2. j.child = job[p].child /\ j.page = job[p].page
    BY <1>1, <2>1 DEF Job
  <2>3. job' = [job EXCEPT ![p] = j]
    BY <1>1, <1>2, <2>1
  <2> QED  BY <2>2, <2>3, NearLocal
<1>3. CASE job' = [job EXCEPT ![p].victim = v, ![p].disk = d]
  <2>1. PICK j : j = [job[p] EXCEPT !.victim = v, !.disk = d]
    OBVIOUS
  <2>2. j.child = job[p].child /\ j.page = job[p].page
    BY <1>1, <2>1 DEF Job
  <2>3. job' = [job EXCEPT ![p] = j]
    BY <1>1, <1>3, <2>1
  <2> QED  BY <2>2, <2>3, NearLocal
<1>4. CASE job' = [job EXCEPT ![p].what = w, ![p].pte = e]
  <2>1. PICK j : j = [job[p] EXCEPT !.what = w, !.pte = e]
    OBVIOUS
  <2>2. j.child = job[p].child /\ j.page = job[p].page
    BY <1>1, <2>1 DEF Job
  <2>3. job' = [job EXCEPT ![p] = j]
    BY <1>1, <1>4, <2>1
  <2> QED  BY <2>2, <2>3, NearLocal
<1> QED  BY <1>2, <1>3, <1>4

LEMMA NearNext ==
    ASSUME PagingInv, Near, Far = {}, [Next]_vars
    PROVE  Near'
<1> USE Constants
<1>1. \A v : Regn(v) = "near"
  BY DEF Regn
<1>2. ASSUME UNCHANGED <<pc, job, tab, sz>> PROVE Near'
  <2>1. NearStep
    BY <1>2 DEF NearStep, Live
  <2> QED  BY <2>1, NearKept
<1>3. ASSUME NEW p \in Proc, NEW v, NEW w, Touch(p, v, w) \/ switchuvm(p) \/ sbrk(p) PROVE Near'
  <2>1. UNCHANGED <<pc, job, tab>>
    BY <1>3 DEF Touch, switchuvm, sbrk
  <2>2. \A o \in Proc : sz'[o] \in {sz[o], sz[o] + 1}
    BY <1>3 DEF Touch, switchuvm, sbrk, PagingInv, TypeOK
  <2>3. NearStep
    BY <2>1, <2>2 DEF NearStep, Live
  <2> QED  BY <2>3, NearKept
<1>4. ASSUME NEW p \in Proc, NEW v, handle_pgfault(p, v) PROVE Near'
  <2>1. PICK j : j = [NoJob EXCEPT !.what = "fault", !.page = v]
    OBVIOUS
  <2>2. j.child = 0
    BY <2>1 DEF NoJob
  <2>3. Live(p) /\ pc' = [pc EXCEPT ![p] = "kalloc"] /\ job' = [job EXCEPT ![p] = j]
        /\ UNCHANGED <<tab, sz>>
    BY <1>4, <2>1 DEF handle_pgfault, At, goto, Live
  <2> QED  BY <2>2, <2>3, NearLocal
<1>5. ASSUME NEW p \in Proc, NEW v \in Page, sys_swap(p, v) PROVE Near'
  <2>1. Live(p)
    BY <1>5 DEF sys_swap, At, Live
  <2>2. HasTable(p)
    BY <2>1 DEF Near
  <2> DEFINE k(d) == [NoJob EXCEPT !.what = "swap", !.victim = v, !.disk = d]
  <2>3. \/ UNCHANGED <<pc, job, tab, sz>>
        \/ \E d \in freedisk : /\ job' = [job EXCEPT ![p] = k(d)]
                               /\ pc' = [pc EXCEPT ![p] = "write"] /\ UNCHANGED <<tab, sz>>
    BY <1>1, <1>5, <2>2 DEF sys_swap, goto, Stop, HasTable
  <2>4. \A d : k(d).child = 0
    BY DEF NoJob
  <2> HIDE DEF k
  <2>5. CASE UNCHANGED <<pc, job, tab, sz>>
    BY <1>2, <2>5
  <2>6. CASE ~UNCHANGED <<pc, job, tab, sz>>
    <3>1. PICK d \in freedisk : /\ job' = [job EXCEPT ![p] = k(d)]
                                /\ pc' = [pc EXCEPT ![p] = "write"] /\ UNCHANGED <<tab, sz>>
      BY <2>3, <2>6
    <3> QED  BY <2>1, <2>4, <3>1, NearLocal
  <2> QED  BY <2>5, <2>6
<1>6. ASSUME NEW p \in Proc, NEW q \in Proc, fork(p, q) PROVE Near'
  <2>1. PICK j : j = [NoJob EXCEPT !.child = q]
    OBVIOUS
  <2>2. j.page = 0
    BY <2>1 DEF NoJob
  <2>3. /\ pc[p] = "user" /\ pc' = [pc EXCEPT ![p] = "copy", ![q] = "embryo"]
        /\ job' = [job EXCEPT ![p] = j] /\ UNCHANGED <<tab, sz>>
    BY <1>6, <2>1 DEF fork, At
  <2>4. job'[p] = j /\ \A o \in Proc \ {p} : job'[o] = job[o]
    BY <2>3 DEF PagingInv, TypeOK
  <2>5. \A o \in Proc : Live(o)' => Live(o)
    BY <2>3 DEF PagingInv, TypeOK, Live
  <2>6. NearStep
    BY <2>2, <2>3, <2>4, <2>5 DEF NearStep
  <2> QED  BY <2>6, NearKept
<1>7. ASSUME NEW p \in Proc, map_nothing(p) \/ map_swapped(p) \/ map_zeroed(p) PROVE Near'
  <2>1. Live(p) /\ pc' = [pc EXCEPT ![p] = "user"] /\ job' = [job EXCEPT ![p] = NoJob]
        /\ UNCHANGED <<tab, sz>>
    BY <1>7 DEF map_nothing, map_swapped, map_zeroed, At, Back, goto, Live
  <2> QED  BY <2>1, NearLocal, NoJobTyped
<1>8. ASSUME NEW p \in Proc, copyuvm(p) PROVE Near'
  <2>1. Live(p) /\ UNCHANGED <<tab, sz>>
    BY <1>8 DEF copyuvm, At, Stop, Live
  <2>2. PICK w, e : /\ w = (IF Swapped(p, job[p].page) THEN "in" ELSE "copy")
                    /\ e = pte[p][job[p].page]
    OBVIOUS
  <2>3. \/ UNCHANGED <<pc, job>>
        \/ /\ job' = [job EXCEPT ![p].what = w, ![p].pte = e]
           /\ pc' = [pc EXCEPT ![p] = "kalloc"]
    BY <1>8, <2>2 DEF copyuvm, goto, Stop
  <2> QED  BY <1>2, <2>1, <2>3, NearUpdate
<1>9. ASSUME NEW p \in Proc, kalloc(p) \/ kalloc_again(p) \/ copy_in(p) PROVE Near'
  <2>1. Live(p) /\ UNCHANGED <<tab, sz>>
    BY <1>9 DEF kalloc, kalloc_again, copy_in, At, Stop, Live
  <2>2. CASE UNCHANGED job
    <3>1. NearStep
      BY <1>9, <2>1, <2>2 DEF kalloc, kalloc_again, copy_in, goto, Stop, NearStep, Live, PagingInv, TypeOK
    <3> QED  BY <3>1, NearKept
  <2>3. CASE ~UNCHANGED job
    <3>1. PICK g, l : job' = [job EXCEPT ![p].got = g] /\ pc' = [pc EXCEPT ![p] = l]
      BY <1>9, <2>3 DEF kalloc, kalloc_again, copy_in, goto, Stop
    <3> QED  BY <2>1, <3>1, NearUpdate
  <2> QED  BY <2>2, <2>3
<1>10. ASSUME NEW p \in Proc, swap_page(p) PROVE Near'
  <2>1. Live(p) /\ UNCHANGED <<tab, sz>>
    BY <1>10 DEF swap_page, At, Stop, Live
  <2>2. PICK m : m = Min(select_a_victim(p))
    OBVIOUS
  <2>3. CASE UNCHANGED <<pc, job>>
    BY <1>2, <2>1, <2>3
  <2>4. CASE ~UNCHANGED <<pc, job>>
    <3>1. PICK d \in freedisk : /\ job' = [job EXCEPT ![p].victim = m, ![p].disk = d]
                                /\ pc' = [pc EXCEPT ![p] = "write"]
      BY <1>10, <2>2, <2>4 DEF swap_page, goto, Stop
    <3> QED  BY <2>1, <3>1, NearUpdate
  <2> QED  BY <2>3, <2>4
<1>11. ASSUME NEW p \in Proc, swap_page_from_pte(p) PROVE Near'
  <2>1. Live(p) /\ UNCHANGED <<tab, sz>>
    BY <1>11 DEF swap_page_from_pte, At, Stop, Live
  <2>2. \/ UNCHANGED <<pc, job>>
        \/ job' = [job EXCEPT ![p] = NoJob] /\ pc' = [pc EXCEPT ![p] = "user"]
        \/ /\ job' = [job EXCEPT ![p].victim = 0, ![p].disk = Null]
           /\ pc' = [pc EXCEPT ![p] = "again"]
    BY <1>11 DEF swap_page_from_pte, Back, goto, Stop
  <2> QED  BY <1>2, <2>1, <2>2, NearLocal, NearUpdate, NoJobTyped
<1>12. ASSUME NEW p \in Proc, copy_page(p) PROVE Near'
  <2>1. pc[p] = "have" /\ job[p].what = "copy"
    BY <1>12 DEF copy_page, At
  <2>2. PICK q, v : q = job[p].child /\ v = job[p].page
    OBVIOUS
  <2>3. q \in Proc /\ q # p /\ pc[q] = "embryo"
    BY <2>1, <2>2, CopyFacts
  <2>4. PICK j : j = [NoJob EXCEPT !.child = q, !.page = v + 1]
    OBVIOUS
  <2>5. j.child = q
    BY <2>4 DEF NoJob
  <2>6. /\ job' = [job EXCEPT ![p] = j] /\ pc' = [pc EXCEPT ![p] = "copy"] /\ UNCHANGED sz
        /\ \/ tab[q]["near"] = Null /\ free # {} /\ tab' = [tab EXCEPT ![q]["near"] = NextFree]
           \/ tab[q]["near"] # Null /\ UNCHANGED tab
    BY <1>1, <1>12, <2>2, <2>4 DEF copy_page, goto
  <2>7. free # {} => NextFree # Null
    BY NextFreeIn DEF PagingInv, TypeOK
  <2>8. tab'[q]["near"] # Null /\ \A o \in Proc \ {q} : tab'[o] = tab[o]
    <3>1. tab \in [Proc -> [Region -> Frame \cup {Null}]] /\ "near" \in Region
      BY DEF PagingInv, TypeOK, Region
    <3> QED  BY <2>3, <2>6, <2>7, <3>1
  <2>9. /\ job'[p] = j /\ \A o \in Proc \ {p} : job'[o] = job[o] /\ pc'[o] = pc[o]
    BY <2>6 DEF PagingInv, TypeOK
  <2>10. \A o \in Proc : Live(o)' => tab'[o]["near"] # Null /\ sz'[o] >= 3
    <3>1. \A o \in Proc : Live(o)' => Live(o) /\ o # q
      BY <2>1, <2>3, <2>9 DEF Live
    <3> QED  BY <2>6, <2>8, <3>1 DEF Near, HasTable
  <2>11. ASSUME NEW o \in Proc, job'[o].child # 0, job'[o].page > 0
         PROVE  tab'[job'[o].child]["near"] # Null
    <3>1. CASE o = p
      BY <2>5, <2>8, <2>9, <3>1
    <3>2. CASE o # p
      <4>1. job'[o] = job[o]
        BY <2>9, <3>2
      <4>2. job[o].child \in Proc /\ job[o].child # q
        <5>1. job[o].child \in Proc
          BY <2>11, <4>1, Typing DEF PagingInv, Job, Proc
        <5>2. \A a, b \in Proc : job[a].child = job[b].child /\ a # b => job[a].child = 0
          BY DEF PagingInv, Children
        <5> QED  BY <2>2, <2>11, <3>2, <4>1, <5>1, <5>2
      <4> QED  BY <2>8, <2>11, <4>1, <4>2 DEF Near, HasTable
    <3> QED  BY <3>1, <3>2
  <2> QED  BY <2>10, <2>11 DEF Near, HasTable
<1>13. ASSUME NEW p \in Proc, copy_fails(p) PROVE Near'
  <2>1. PICK q : q = job[p].child
    OBVIOUS
  <2>2. q \in Proc /\ q # p /\ pc[q] = "embryo" /\ freevm(q)
    BY <1>13, <2>1, CopyFacts DEF copy_fails, At
  <2>3. /\ job' = [job EXCEPT ![p] = NoJob] /\ UNCHANGED sz
        /\ pc' = [pc EXCEPT ![p] = "user", ![q] = "unused"]
    BY <1>13, <2>1 DEF copy_fails
  <2>4. \A o \in Proc \ {q} : tab'[o] = tab[o]
    <3>1. TypeOK
      BY DEF PagingInv
    <3> QED  BY <2>2, <3>1, FreevmTyped
  <2>5. job'[p].child = 0 /\ \A o \in Proc \ {p} : job'[o] = job[o]
    BY <2>3, NoJobTyped DEF PagingInv, TypeOK
  <2>6. \A o \in Proc : job'[o].child # q
    BY <2>1, <2>2, <2>5, Constants DEF PagingInv, Children
  <2>7. \A o \in Proc : Live(o)' => Live(o) /\ o # q
    BY <1>13, <2>2, <2>3 DEF copy_fails, At, Live, PagingInv, TypeOK
  <2>8. NearStep
    BY <2>3, <2>4, <2>5, <2>6, <2>7 DEF NearStep
  <2> QED  BY <2>8, NearKept
<1>14. ASSUME NEW p \in Proc, fork_done(p) PROVE Near'
  <2>1. PICK q : q = job[p].child
    OBVIOUS
  <2>2. /\ pc[p] = "copy" /\ job[p].page = sz[p] /\ sz' = [sz EXCEPT ![q] = sz[p]]
        /\ job' = [job EXCEPT ![p] = NoJob] /\ UNCHANGED tab
        /\ pc' = [pc EXCEPT ![p] = "user", ![q] = "user"]
    BY <1>14, <2>1 DEF fork_done, At
  <2>3. q \in Proc /\ q # 0
    BY <2>1, <2>2, Typing DEF PagingInv, Jobs, JobOK, Job, Proc
  <2>4. sz[p] >= 3 /\ sz[p] \in Nat /\ HasTable(p)
    BY <2>2, Typing DEF PagingInv, Near, Live
  <2>5. HasTable(q)
    BY <2>1, <2>2, <2>3, <2>4 DEF Near
  <2>6. \A o \in Proc : Live(o)' => HasTable(o) /\ sz'[o] >= 3
    BY <2>2, <2>3, <2>4, <2>5 DEF Near, Live, PagingInv, TypeOK
  <2>7. job'[p].child = 0 /\ \A o \in Proc \ {p} : job'[o] = job[o]
    BY <2>2, NoJobTyped DEF PagingInv, TypeOK
  <2> QED  BY <2>2, <2>6, <2>7 DEF Near, HasTable
<1>15. ASSUME NEW p \in Proc, exit(p) PROVE Near'
  <2>1. /\ pc[p] = "user" /\ freevm(p) /\ pc' = [pc EXCEPT ![p] = "unused"]
        /\ sz' = [sz EXCEPT ![p] = 0] /\ UNCHANGED job
    BY <1>15 DEF exit, At, goto
  <2>2. \A o \in Proc \ {p} : tab'[o] = tab[o]
    <3>1. TypeOK
      BY DEF PagingInv
    <3> QED  BY <2>1, <3>1, FreevmTyped
  <2>3. \A o \in Proc : Live(o)' => Live(o) /\ o # p /\ sz'[o] = sz[o]
    BY <2>1 DEF Live, PagingInv, TypeOK
  <2>4. NearStep
    BY <2>1, <2>2, <2>3 DEF NearStep
  <2> QED  BY <2>4, NearKept
<1>16. ASSUME Stopped \/ UNCHANGED vars PROVE Near'
  BY <1>2, <1>16 DEF Stopped, vars
<1> QED  BY <1>3, <1>4, <1>5, <1>6, <1>7, <1>8, <1>9, <1>10, <1>11, <1>12, <1>13, <1>14,
            <1>15, <1>16 DEF Next

\* Where a process that handles a fault may be, and how it gets back to user mode.
LEMMA FaultPlaces ==
    ASSUME PagingInv, NEW p \in Proc, job[p].what = "fault"
    PROVE  /\ pc[p] \in {"kalloc", "victim", "write", "again", "have"}
           /\ pc[p] = "have" => job[p].page \in Page /\ job[p].got \in Frame
<1>1. JobOK(pc[p], job[p], pte[p], sz[p]) /\ pc[p] \in PC
  BY Typing DEF PagingInv, Jobs
<1>2. pc[p] \notin {"unused", "embryo", "user"}
  BY <1>1, NoJobTyped DEF JobOK
<1>3. pc[p] # "copy"
  BY <1>1 DEF JobOK
<1> QED  BY <1>1, <1>2, <1>3, HaveFacts DEF PC

\* The pc of a process is only changed by its own steps while it is in a fault.
LEMMA FaultAlone ==
    ASSUME PagingInv, [Next]_vars, NEW p \in Proc, pc[p] \notin {"unused", "embryo"},
           pc'[p] # pc[p]
    PROVE  \/ \E v \in Touchable(p) : handle_pgfault(p, v)
           \/ \E v \in Page : sys_swap(p, v)
           \/ \E q \in Proc : fork(p, q)
           \/ exit(p) \/ kalloc(p) \/ swap_page(p) \/ swap_page_from_pte(p) \/ kalloc_again(p)
           \/ map_nothing(p) \/ map_swapped(p) \/ map_zeroed(p)
           \/ copyuvm(p) \/ copy_in(p) \/ copy_page(p) \/ copy_fails(p) \/ fork_done(p)
<1>0. pc \in [Proc -> PC]
  BY DEF PagingInv, TypeOK
<1>1. ~UNCHANGED vars /\ ~Stopped
  BY DEF Stopped, vars
<1>2. PICK o \in Proc :
          \/ \E v \in Touchable(o) :
                \/ \E write \in BOOLEAN : Touch(o, v, write)
                \/ handle_pgfault(o, v)
          \/ \E v \in Page : sys_swap(o, v)
          \/ \E q \in Proc : fork(o, q)
          \/ switchuvm(o) \/ sbrk(o) \/ exit(o)
          \/ kalloc(o) \/ swap_page(o) \/ swap_page_from_pte(o)
          \/ kalloc_again(o)
          \/ map_nothing(o) \/ map_swapped(o) \/ map_zeroed(o)
          \/ copyuvm(o) \/ copy_in(o) \/ copy_page(o) \/ copy_fails(o)
          \/ fork_done(o)
  BY <1>1 DEF Next
<1>3. ASSUME NEW v, NEW write, Touch(o, v, write) \/ switchuvm(o) \/ sbrk(o) PROVE FALSE
  BY <1>3 DEF Touch, switchuvm, sbrk
<1>4. CASE o = p
  BY <1>2, <1>3, <1>4
<1>5. CASE o # p
  <2>1. ASSUME NEW v, handle_pgfault(o, v) \/ sys_swap(o, v) PROVE FALSE
    BY <1>0, <1>5, <2>1 DEF handle_pgfault, sys_swap, goto, Stop
  <2>2. ASSUME NEW q \in Proc, fork(o, q) PROVE FALSE
    BY <1>0, <1>5, <2>2 DEF fork
  <2>3. ASSUME exit(o) \/ kalloc(o) \/ kalloc_again(o) \/ map_nothing(o) \/ map_swapped(o)
               \/ map_zeroed(o) \/ copyuvm(o) \/ copy_in(o) \/ copy_page(o)
        PROVE  FALSE
    BY <1>0, <1>5, <2>3 DEF exit, kalloc, kalloc_again, map_nothing, map_swapped, map_zeroed,
          copyuvm, copy_in, copy_page, goto, Back, Stop
  <2>4. ASSUME swap_page(o) \/ swap_page_from_pte(o) PROVE FALSE
    <3>1. \/ UNCHANGED pc
          \/ \E l : pc' = [pc EXCEPT ![o] = l]
      BY <2>4 DEF swap_page, swap_page_from_pte, goto, Back, Stop
    <3> QED  BY <1>0, <1>5, <3>1
  <2>5. ASSUME copy_fails(o) PROVE FALSE
    <3>1. job[o].child \in Proc /\ pc[job[o].child] = "embryo"
      BY <2>5, CopyFacts DEF copy_fails, At
    <3>2. pc' = [pc EXCEPT ![o] = "user", ![job[o].child] = "unused"]
      BY <2>5 DEF copy_fails
    <3> QED  BY <1>0, <1>5, <3>1, <3>2
  <2>6. ASSUME fork_done(o) PROVE FALSE
    <3>1. pc[o] = "copy" /\ pc' = [pc EXCEPT ![o] = "user", ![job[o].child] = "user"]
      BY <2>6 DEF fork_done, At
    <3>2. job[o].child \in Proc /\ pc[job[o].child] = "embryo"
      BY <3>1, Typing DEF PagingInv, Jobs, JobOK, Children, Job, Proc
    <3> QED  BY <1>0, <1>5, <3>1, <3>2
  <2> QED  BY <1>2, <1>3, <2>1, <2>2, <2>3, <2>4, <2>5, <2>6
<1> QED  BY <1>4, <1>5

LEMMA FaultEnds ==
    ASSUME PagingInv, Near, Far = {}, [Next]_vars
    PROVE  FaultEndsMapped
<1> SUFFICES ASSUME NEW p \in Proc, job[p].what = "fault", pc'[p] = "user"
             PROVE  pte'[p][job[p].page].at \in Frame /\ pte'[p][job[p].page].u
  BY DEF FaultEndsMapped
<1>1. pc[p] \in {"kalloc", "victim", "write", "again", "have"} /\ pc \in [Proc -> PC]
  BY FaultPlaces DEF PagingInv, TypeOK
<1>2. HasTable(p)
  BY <1>1 DEF Near, Live
<1>3. \/ kalloc(p) \/ swap_page(p) \/ swap_page_from_pte(p) \/ kalloc_again(p)
      \/ map_nothing(p) \/ map_swapped(p) \/ map_zeroed(p)
  BY <1>1, FaultAlone DEF handle_pgfault, sys_swap, fork, exit, copyuvm, copy_in, copy_page,
        copy_fails, fork_done, At
<1>4. ASSUME kalloc(p) \/ kalloc_again(p) PROVE FALSE
  BY <1>1, <1>4 DEF kalloc, kalloc_again, At, goto, Stop
<1>5. ASSUME swap_page(p) PROVE FALSE
  BY <1>1, <1>5 DEF swap_page, At, goto, Stop
<1>6. ASSUME swap_page_from_pte(p) PROVE FALSE
  <2>1. UNCHANGED pc \/ pc' = [pc EXCEPT ![p] = "again"]
    BY <1>6 DEF swap_page_from_pte, goto, Stop
  <2> QED  BY <1>1, <2>1
<1>7. ~map_nothing(p)
  BY <1>2 DEF map_nothing, Regn, HasTable
<1>8. CASE map_swapped(p) \/ map_zeroed(p)
  <2>1. pc[p] = "have"
    BY <1>8 DEF map_swapped, map_zeroed, At
  <2>2. job[p].page \in Page /\ job[p].got \in Frame
    BY <2>1, FaultPlaces
  <2>3. pte' = [pte EXCEPT ![p][job[p].page] = Entry(job[p].got, TRUE, FALSE)]
    BY <1>8 DEF map_swapped, map_zeroed, ReadIn
  <2>4. pte \in [Proc -> [Page -> Pte]]
    BY DEF PagingInv, TypeOK
  <2>5. pte'[p][job[p].page] = Entry(job[p].got, TRUE, FALSE)
    BY <2>2, <2>3, <2>4
  <2> QED  BY <2>2, <2>5 DEF Entry
<1> QED  BY <1>3, <1>4, <1>5, <1>6, <1>7, <1>8

\* handle_pgfault() and map_address(): where a page table covers every page, a fault
\* returns to user mode only with the page mapped for it, however kalloc() and the
\* swapper went about it and whoever else ran meanwhile.
THEOREM FaultTheorem == ASSUME Far = {} PROVE Spec => FaultMaps
<1>1. Init => Near
  <2> SUFFICES ASSUME Init PROVE Near
    OBVIOUS
  <2>1. ASSUME NEW p \in Proc, Live(p) PROVE HasTable(p) /\ sz[p] >= 3
    <3>1. p <= NBOOT /\ p \in 1 .. NBOOT /\ tab[p]["near"] = Boot(p, 2) /\ sz[p] = 3
      BY <2>1, Constants DEF Init, Live, Region, Proc
    <3> QED  BY <3>1, Boots, Constants DEF HasTable
  <2>2. \A p \in Proc : job[p].child = 0
    BY NoJobTyped DEF Init
  <2> QED  BY <2>1, <2>2 DEF Near
<1>2. PagingInv /\ Near /\ [Next]_vars => PagingInv' /\ Near'
  BY Step, NearNext
<1>3. PagingInv /\ Near /\ [Next]_vars => [FaultEndsMapped]_vars
  BY FaultEnds
<1> QED  BY <1>1, <1>2, <1>3, Initially, PTL DEF Spec, FaultMaps

-----------------------------------------------------------------------------
(* Memory keeps what was written to it, if sys_swap() leaves no entry in   *)
(* the TLB and, where processes fork, they are Tame.                       *)

\* Where the page with the entry e is, memory m or disk d has w; a page that is
\* nowhere, or out of the user's reach, is to read as zero.
Holds(e, m, d, w) ==
    /\ e.at \in Frame => m[e.at] = w
    /\ e.at \in Disk => d[e.at] = w
    /\ e.at = Null \/ (e.at \in Frame /\ e.u # TRUE) => w = Zero

\* A fault was not on a mapped page, a copy is of what the entry still says, and
\* where processes fork no page is evicted but by sys_swap().
JobKept(l, j, t) ==
    /\ j.what = "fault" => ~(t[j.page].at \in Frame /\ t[j.page].u = TRUE)
    /\ j.what = "copy" => j.pte = t[j.page]
    /\ "fork" \in Ops => l \notin {"victim", "again"} /\ (l = "write" => j.what = "swap")

Content ==
    /\ \A p \in Proc : stale[p] = NoStale
    /\ \A p \in Proc, v \in Page : pc[p] # "embryo" => Holds(pte[p][v], mem, disk, val[p][v])
    /\ \A p \in Proc, v \in Page : v >= sz[p] => val[p][v] = Zero
    /\ \A p \in Proc, v \in Page :
          job[p].child # 0 /\ v < job[p].page =>
             Holds(pte[job[p].child][v], mem, disk, val[p][v])
    /\ \A p \in Proc : JobKept(pc[p], job[p], pte[p])

KeptInv ==
    /\ PagingInv /\ Content
    /\ "fork" \in Ops => OwnedInv /\ NearOnly

\* No two entries, local variables or free lists have the same page.
LEMMA Apart ==
    ASSUME PagingInv
    PROVE  /\ \A p, q \in Proc : \A v, w \in Page :
                 pte[p][v].at = pte[q][w].at /\ pte[p][v].at \in Resource => p = q /\ v = w
           /\ \A p, q \in Proc : \A v \in Page :
                 job[p].got \in Resource => pte[q][v].at # job[p].got
           /\ \A p, q \in Proc : \A v \in Page :
                 job[p].disk \in Resource => pte[q][v].at # job[p].disk
           /\ \A p \in Proc, v \in Page : pte[p][v].at \in Resource => pte[p][v].at \notin Avail
<1>1. /\ \A x \in Place : Held[x] \in Resource => Held[x] \notin Avail
      /\ \A x, y \in Place : Held[x] = Held[y] /\ Held[x] \in Resource => x = y
  BY DEF PagingInv, Owned
<1>2. ASSUME NEW p \in Proc, NEW q \in Proc, NEW v \in Page, NEW w \in Page,
             pte[p][v].at = pte[q][w].at, pte[p][v].at \in Resource
      PROVE  p = q /\ v = w
  <2>1. PICK x, y : x = <<"pte", p, v>> /\ y = <<"pte", q, w>>
    OBVIOUS
  <2>2. x \in Place /\ y \in Place /\ Held[x] = pte[p][v].at /\ Held[y] = pte[q][w].at
    BY <2>1, PlaceIs
  <2>3. x = y
    BY <1>1, <1>2, <2>2
  <2> QED  BY <2>1, <2>3
<1>3. ASSUME NEW p \in Proc, NEW q \in Proc, NEW v \in Page
      PROVE  /\ job[p].got \in Resource => pte[q][v].at # job[p].got
             /\ job[p].disk \in Resource => pte[q][v].at # job[p].disk
  <2>1. PICK x, g, d : x = <<"pte", q, v>> /\ g = <<"got", p>> /\ d = <<"disk", p>>
    OBVIOUS
  <2>2. /\ x \in Place /\ g \in Place /\ d \in Place /\ x # g /\ x # d
        /\ Held[x] = pte[q][v].at /\ Held[g] = job[p].got /\ Held[d] = job[p].disk
    BY <2>1, PlaceIs
  <2> QED  BY <1>1, <2>2
<1>4. \A p \in Proc, v \in Page : pte[p][v].at \in Resource => pte[p][v].at \notin Avail
  BY <1>1, PlaceIs
<1> QED  BY <1>2, <1>3, <1>4

LEMMA HoldsSame ==
    ASSUME NEW e, NEW g, NEW m, NEW n, NEW d, NEW c, NEW w, Holds(e, m, d, w),
           g.at = e.at, g.u = e.u, e.at \in Frame => n[e.at] = m[e.at],
           e.at \in Disk => c[e.at] = d[e.at]
    PROVE  Holds(g, n, c, w)
  BY DEF Holds

\* A process without anything to do.
LEMMA KeptIdle == \A l \in {"unused", "embryo", "user", "copy"} : \A t : JobKept(l, NoJob, t)
  BY NoJobTyped DEF JobKept

\* A step that writes no page and changes no entry.
LEMMA QuietContent ==
    ASSUME PagingInv, Content, UNCHANGED <<mem, disk, pte, val, stale>>,
           \A o \in Proc : sz'[o] \in {sz[o], sz[o] + 1},
           \A o \in Proc : pc[o] = "embryo" => pc'[o] = "embryo",
           \A o \in Proc : \/ job'[o].child = 0 \/ job'[o].page = 0
                           \/ job'[o].child = job[o].child /\ job'[o].page = job[o].page,
           \A o \in Proc : JobKept(pc'[o], job'[o], pte[o])
    PROVE  Content'
<1>1. \A o \in Proc : stale'[o] = NoStale
  BY DEF Content
<1>2. \A o \in Proc, v \in Page : pc'[o] # "embryo" => Holds(pte'[o][v], mem', disk', val'[o][v])
  BY DEF Content
<1>3. ASSUME NEW o \in Proc, NEW v \in Page, v >= sz'[o] PROVE val'[o][v] = Zero
  <2>1. v >= sz[o]
    BY <1>3, Typing, Constants DEF PagingInv, Page
  <2> QED  BY <2>1 DEF Content
<1>4. ASSUME NEW o \in Proc, NEW v \in Page, job'[o].child # 0, v < job'[o].page
      PROVE  Holds(pte'[job'[o].child][v], mem', disk', val'[o][v])
  <2>1. job'[o].page # 0
    BY <1>4, Constants DEF Page
  <2>2. job'[o].child = job[o].child /\ job'[o].page = job[o].page
    BY <1>4, <2>1
  <2>3. Holds(pte[job[o].child][v], mem, disk, val[o][v])
    BY <1>4, <2>2 DEF Content
  <2> QED  BY <2>2, <2>3
<1>5. \A o \in Proc : JobKept(pc'[o], job'[o], pte'[o])
  OBVIOUS
<1> QED  BY <1>1, <1>2, <1>3, <1>4, <1>5 DEF Content

\* The same of a step of p alone.
LEMMA QuietLocal ==
    ASSUME PagingInv, Content, NEW p \in Proc, NEW l, NEW j, pc[p] # "embryo",
           UNCHANGED <<mem, disk, pte, val, stale, sz>>,
           pc' = [pc EXCEPT ![p] = l], job' = [job EXCEPT ![p] = j],
           \/ j.child = 0 \/ j.page = 0
           \/ j.child = job[p].child /\ j.page = job[p].page,
           JobKept(l, j, pte[p])
    PROVE  Content'
<1>1. pc'[p] = l /\ job'[p] = j /\ \A o \in Proc \ {p} : pc'[o] = pc[o] /\ job'[o] = job[o]
  BY DEF PagingInv, TypeOK
<1>2. \A o \in Proc : JobKept(pc'[o], job'[o], pte[o])
  BY <1>1 DEF Content
<1>3. \A o \in Proc : pc[o] = "embryo" => pc'[o] = "embryo"
  BY <1>1
<1>4. \A o \in Proc : \/ job'[o].child = 0 \/ job'[o].page = 0
                      \/ job'[o].child = job[o].child /\ job'[o].page = job[o].page
  BY <1>1
<1> QED  BY <1>2, <1>3, <1>4, QuietContent

\* A step that changes the entry of page v of q, at most, and what is written there.
OneEntry(q, v) ==
    /\ \A o \in Proc : stale'[o] = NoStale
    /\ \A o \in Proc : o # q => pte'[o] = pte[o]
    /\ \A o \in Proc, w \in Page : o # q \/ w # v =>
          /\ pte'[o][w] = pte[o][w] /\ val'[o][w] = val[o][w]
          /\ pte[o][w].at \in Frame => mem'[pte[o][w].at] = mem[pte[o][w].at]
          /\ pte[o][w].at \in Disk => disk'[pte[o][w].at] = disk[pte[o][w].at]
    /\ val'[q][v] = val[q][v] \/ v < sz[q]
    /\ UNCHANGED sz

LEMMA OneEntryHolds ==
    ASSUME NEW q \in Proc, NEW v \in Page, OneEntry(q, v), NEW o \in Proc, NEW w \in Page,
           o # q \/ w # v, NEW x, Holds(pte[o][w], mem, disk, x)
    PROVE  Holds(pte'[o][w], mem', disk', x)
<1>1. /\ pte'[o][w] = pte[o][w]
      /\ pte[o][w].at \in Frame => mem'[pte[o][w].at] = mem[pte[o][w].at]
      /\ pte[o][w].at \in Disk => disk'[pte[o][w].at] = disk[pte[o][w].at]
  BY DEF OneEntry
<1> QED  BY <1>1, HoldsSame

\* The entry is of p itself, or of the process that p makes.
OwnEntry(p, v, j) ==
    /\ Holds(pte'[p][v], mem', disk', val'[p][v])
    /\ \/ j.child = 0
       \/ j.child = job[p].child /\ j.page = job[p].page /\ val'[p][v] = val[p][v]
ChildEntry(p, q, v, j) ==
    /\ pc[q] = "embryo" /\ job[p].child = q /\ job[p].page = v
    /\ j.child = q /\ j.page = v + 1 /\ UNCHANGED val
    /\ Holds(pte'[q][v], mem', disk', val[p][v])

LEMMA EntryContent ==
    ASSUME PagingInv, Content, NEW p \in Proc, NEW q \in Proc, NEW v \in Page, NEW l, NEW j,
           pc[p] # "embryo", l # "embryo", pc' = [pc EXCEPT ![p] = l],
           job' = [job EXCEPT ![p] = j], OneEntry(q, v), JobKept(l, j, pte'[p]),
           \/ q = p /\ OwnEntry(p, v, j)
           \/ q # p /\ ChildEntry(p, q, v, j)
    PROVE  Content'
<1>1. pc'[p] = l /\ job'[p] = j /\ \A o \in Proc \ {p} : pc'[o] = pc[o] /\ job'[o] = job[o]
  BY DEF PagingInv, TypeOK
<1>2. \A o \in Proc : stale'[o] = NoStale
  BY DEF OneEntry
<1>3. ASSUME NEW o \in Proc, NEW w \in Page, pc'[o] # "embryo"
      PROVE  Holds(pte'[o][w], mem', disk', val'[o][w])
  <2>1. CASE o = q /\ w = v
    <3>1. q = p
      BY <1>1, <1>3, <2>1 DEF ChildEntry
    <3> QED  BY <2>1, <3>1 DEF OwnEntry
  <2>2. CASE o # q \/ w # v
    <3>1. pc[o] # "embryo"
      BY <1>1, <1>3
    <3>2. Holds(pte[o][w], mem, disk, val[o][w])
      BY <3>1 DEF Content
    <3>3. val'[o][w] = val[o][w]
      BY <2>2 DEF OneEntry
    <3> QED  BY <2>2, <3>2, <3>3, OneEntryHolds
  <2> QED  BY <2>1, <2>2
<1>4. ASSUME NEW o \in Proc, NEW w \in Page, w >= sz'[o] PROVE val'[o][w] = Zero
  <2>1. sz'[o] = sz[o] /\ sz[o] \in 0 .. MaxPages
    BY Typing DEF PagingInv, OneEntry
  <2>2. val[o][w] = Zero
    BY <1>4, <2>1 DEF Content
  <2>3. ~(w < sz[o])
    BY <1>4, <2>1, Constants DEF Page
  <2>4. val'[o][w] = val[o][w]
    BY <2>3 DEF OneEntry
  <2> QED  BY <2>2, <2>4
<1>5. ASSUME NEW o \in Proc, NEW w \in Page, job'[o].child # 0, w < job'[o].page
      PROVE  Holds(pte'[job'[o].child][w], mem', disk', val'[o][w])
  <2>1. CASE o # p
    <3>1. PICK c : c = job[o].child
      OBVIOUS
    <3>2. job'[o].child = c /\ c # 0 /\ w < job[o].page
      BY <1>1, <1>5, <2>1, <3>1
    <3>3. c \in Proc /\ pc[c] = "embryo"
      BY <3>1, <3>2, Typing DEF PagingInv, Children, Job, Proc
    <3>4. c # q
      <4>1. CASE q = p
        BY <3>3, <4>1
      <4>2. CASE q # p
        <5>1. job[p].child = q
          BY <4>2 DEF ChildEntry
        <5> QED  BY <2>1, <3>1, <3>2, <5>1 DEF PagingInv, Children
      <4> QED  BY <4>1, <4>2
    <3>5. Holds(pte[c][w], mem, disk, val[o][w])
      BY <3>1, <3>2 DEF Content
    <3>6. val'[o][w] = val[o][w]
      BY <2>1 DEF OneEntry, ChildEntry
    <3> QED  BY <3>2, <3>3, <3>4, <3>5, <3>6, OneEntryHolds
  <2>2. CASE o = p /\ q = p
    <3>1. PICK c : c = job[p].child
      OBVIOUS
    <3>2. j.child = c /\ c # 0 /\ w < job[p].page /\ val'[p][v] = val[p][v]
      BY <1>1, <1>5, <2>2, <3>1 DEF OwnEntry
    <3>3. c \in Proc /\ c # p
      BY <3>1, <3>2, Typing DEF PagingInv, Children, Job, Proc
    <3>4. Holds(pte[c][w], mem, disk, val[p][w])
      BY <3>1, <3>2 DEF Content
    <3>5. val'[p][w] = val[p][w]
      BY <2>2, <3>2 DEF OneEntry
    <3>6. Holds(pte'[c][w], mem', disk', val[p][w])
      BY <2>2, <3>3, <3>4, OneEntryHolds
    <3> QED  BY <1>1, <2>2, <3>2, <3>5, <3>6
  <2>3. CASE o = p /\ q # p
    <3>1. ChildEntry(p, q, v, j)
      BY <2>3
    <3>2. job[p].child = q /\ job[p].page = v /\ j.child = q /\ j.page = v + 1 /\ val' = val
      BY <3>1 DEF ChildEntry
    <3>3. w < v + 1 /\ q # 0
      BY <1>1, <1>5, <2>3, <3>2, Constants
    <3>4. CASE w = v
      BY <1>1, <2>3, <3>1, <3>2, <3>4 DEF ChildEntry
    <3>5. CASE w # v
      <4>1. w < v
        BY <3>3, <3>5, Constants DEF Page
      <4>2. Holds(pte[q][w], mem, disk, val[p][w])
        BY <3>2, <3>3, <4>1 DEF Content
      <4>3. Holds(pte'[q][w], mem', disk', val[p][w])
        BY <3>5, <4>2, OneEntryHolds
      <4> QED  BY <1>1, <2>3, <3>2, <4>3
    <3> QED  BY <3>4, <3>5
  <2> QED  BY <2>1, <2>2, <2>3
<1>6. ASSUME NEW o \in Proc PROVE JobKept(pc'[o], job'[o], pte'[o])
  <2>1. CASE o = p
    BY <1>1, <2>1
  <2>2. CASE o # p /\ o # q
    <3>1. pte'[o] = pte[o]
      BY <2>2 DEF OneEntry
    <3> QED  BY <1>1, <2>2, <3>1 DEF Content
  <2>3. CASE o # p /\ o = q
    <3>1. pc[o] = "embryo"
      BY <2>3 DEF ChildEntry
    <3>2. job[o] = NoJob
      BY <3>1 DEF PagingInv, Jobs, JobOK
    <3> QED  BY <1>1, <2>3, <3>1, <3>2, KeptIdle
  <2> QED  BY <2>1, <2>2, <2>3
<1> QED  BY <1>2, <1>3, <1>4, <1>5, <1>6 DEF Content

SetEntry(q, v, e) == pte' = [pte EXCEPT ![q][v] = e]

LEMMA EntrySet ==
    ASSUME TypeOK, NEW q \in Proc, NEW v \in Page, NEW e, SetEntry(q, v, e)
    PROVE  /\ pte'[q][v] = e /\ \A o \in Proc : o # q => pte'[o] = pte[o]
           /\ \A o \in Proc, w \in Page : o # q \/ w # v => pte'[o][w] = pte[o][w]
<1>1. pte \in [Proc -> [Page -> Pte]]
  BY DEF TypeOK
<1>2. pte'[q] = [pte[q] EXCEPT ![v] = e] /\ \A o \in Proc : o # q => pte'[o] = pte[o]
  BY <1>1 DEF SetEntry
<1>3. pte'[q][v] = e /\ \A w \in Page : w # v => pte'[q][w] = pte[q][w]
  BY <1>1, <1>2
<1> QED  BY <1>2, <1>3

\* A load or a store.
LEMMA TouchKept ==
    ASSUME KeptInv, NEW p \in Proc, NEW v \in Touchable(p), NEW write \in BOOLEAN,
           Touch(p, v, write)
    PROVE  Content'
<1> USE Constants
<1>0. PagingInv /\ Content /\ TypeOK
  BY DEF KeptInv, PagingInv
<1>1. v \in Page /\ v < sz[p] /\ pc[p] = "user" /\ stale[p][v] = Null
  <2>1. sz[p] \in 0 .. MaxPages
    BY <1>0, Typing
  <2>2. v \in Page /\ v < sz[p]
    BY <2>1 DEF Touchable, Page
  <2> QED  BY <1>0, <2>2 DEF Touch, At, Content, NoStale
<1>2. PICK f, e : f = pte[p][v].at /\ e = [pte[p][v] EXCEPT !.a = ABit]
  OBVIOUS
<1>3. f \in Frame /\ pte[p][v].u = TRUE /\ pte[p][v] \in Pte
  BY <1>0, <1>1, <1>2, Typing DEF Touch, Present, Pte
<1>4. e.at = f /\ e.u = TRUE /\ f \in Resource
  BY <1>2, <1>3 DEF Pte, Resource
<1>5. /\ pte' = [pte EXCEPT ![p][v] = e]
      /\ UNCHANGED <<disk, sz, stale, pc, job>>
      /\ \/ mem' = [mem EXCEPT ![f] = p] /\ val' = [val EXCEPT ![p][v] = p]
         \/ UNCHANGED <<mem, val>>
  BY <1>1, <1>2 DEF Touch
<1>6. /\ pte'[p][v] = e /\ \A o \in Proc : o # p => pte'[o] = pte[o]
      /\ \A o \in Proc, w \in Page : o # p \/ w # v => pte'[o][w] = pte[o][w]
  <2>1. SetEntry(p, v, e)
    BY <1>5 DEF SetEntry
  <2>2. TypeOK /\ v \in Page
    BY <1>0, <1>1
  <2> QED  BY <2>1, <2>2, EntrySet
<1>7. \A o \in Proc, w \in Page : o # p \/ w # v => pte[o][w].at # f
  BY <1>0, <1>1, <1>2, <1>4, Apart
<1>8. /\ \A g \in Frame : g # f => mem'[g] = mem[g]
      /\ \A o \in Proc, w \in Page : o # p \/ w # v => val'[o][w] = val[o][w]
  BY <1>0, <1>1, <1>3, <1>5 DEF TypeOK
<1>9. OneEntry(p, v)
  <2>1. \A o \in Proc : stale'[o] = NoStale
    BY <1>0, <1>5 DEF Content
  <2> QED  BY <1>1, <1>5, <1>6, <1>7, <1>8, <2>1 DEF OneEntry
<1>10. Holds(pte[p][v], mem, disk, val[p][v])
  BY <1>0, <1>1 DEF Content
<1>11. mem'[f] = val'[p][v]
  <2>1. CASE mem' = [mem EXCEPT ![f] = p] /\ val' = [val EXCEPT ![p][v] = p]
    BY <1>0, <1>1, <1>3, <2>1 DEF TypeOK
  <2>2. CASE UNCHANGED <<mem, val>>
    BY <1>2, <1>3, <1>10, <2>2 DEF Holds
  <2> QED  BY <1>5, <2>1, <2>2
<1>12. job[p] = NoJob
  BY <1>0, <1>1 DEF PagingInv, Jobs, JobOK
<1>13. OwnEntry(p, v, NoJob)
  <2>1. Holds(pte'[p][v], mem', disk', val'[p][v])
    BY <1>3, <1>4, <1>6, <1>11 DEF Holds
  <2> QED  BY <2>1, NoJobTyped DEF OwnEntry
<1>14. pc' = [pc EXCEPT ![p] = "user"] /\ job' = [job EXCEPT ![p] = NoJob]
  BY <1>0, <1>1, <1>5, <1>12 DEF TypeOK
<1>15. JobKept("user", NoJob, pte'[p])
  BY KeptIdle
<1> QED  BY <1>0, <1>1, <1>9, <1>13, <1>14, <1>15, EntryContent

\* What a process begins in user mode.
LEMMA UserKept ==
    ASSUME KeptInv, NEW p \in Proc,
           \/ \E v \in Touchable(p) : handle_pgfault(p, v)
           \/ \E v \in Page : sys_swap(p, v)
           \/ switchuvm(p) \/ sbrk(p)
    PROVE  Content'
<1>0. PagingInv /\ Content /\ TypeOK
  BY DEF KeptInv, PagingInv
<1>1. ASSUME UNCHANGED <<mem, disk, pte, val, stale, pc, job>>,
             \A o \in Proc : sz'[o] \in {sz[o], sz[o] + 1}
      PROVE  Content'
  <2>1. \A o \in Proc : JobKept(pc'[o], job'[o], pte[o])
    BY <1>0, <1>1 DEF Content
  <2> QED  BY <1>0, <1>1, <2>1, QuietContent
<1>2. ASSUME NEW v, handle_pgfault(p, v) PROVE Content'
  <2>1. PICK j : j = [NoJob EXCEPT !.what = "fault", !.page = v]
    OBVIOUS
  <2>2. j.child = 0 /\ j.what = "fault" /\ j.page = v
    BY <2>1 DEF NoJob
  <2>3. /\ pc[p] = "user" /\ ~(pte[p][v].at \in Frame /\ pte[p][v].u = TRUE)
        /\ pc' = [pc EXCEPT ![p] = "kalloc"] /\ job' = [job EXCEPT ![p] = j]
        /\ UNCHANGED <<mem, disk, pte, val, stale, sz>>
    BY <1>2, <2>1 DEF handle_pgfault, At, goto, Present
  <2>4. JobKept("kalloc", j, pte[p])
    BY <2>2, <2>3 DEF JobKept
  <2> QED  BY <1>0, <2>2, <2>3, <2>4, QuietLocal
<1>3. ASSUME NEW v \in Page, sys_swap(p, v) PROVE Content'
  <2> DEFINE k(d) == [NoJob EXCEPT !.what = "swap", !.victim = v, !.disk = d]
  <2>1. \/ UNCHANGED <<mem, disk, pte, val, stale, pc, job, sz>>
        \/ \E d \in freedisk : /\ job' = [job EXCEPT ![p] = k(d)]
                               /\ pc' = [pc EXCEPT ![p] = "write"]
                               /\ UNCHANGED <<mem, disk, pte, val, stale, sz>>
    BY <1>3 DEF sys_swap, goto, Stop
  <2>2. \A d : k(d).child = 0 /\ k(d).what = "swap"
    BY DEF NoJob
  <2>3. pc[p] = "user"
    BY <1>3 DEF sys_swap, At
  <2> HIDE DEF k
  <2>4. CASE UNCHANGED <<mem, disk, pte, val, stale, pc, job, sz>>
    BY <1>1, <2>4
  <2>5. ASSUME NEW d \in freedisk, job' = [job EXCEPT ![p] = k(d)],
               pc' = [pc EXCEPT ![p] = "write"], UNCHANGED <<mem, disk, pte, val, stale, sz>>
        PROVE  Content'
    <3>1. PICK j : j = k(d)
      OBVIOUS
    <3>2. JobKept("write", j, pte[p]) /\ j.child = 0
      BY <2>2, <3>1 DEF JobKept
    <3> QED  BY <1>0, <2>3, <2>5, <3>1, <3>2, QuietLocal
  <2> QED  BY <2>1, <2>4, <2>5
<1>4. ASSUME switchuvm(p) PROVE Content'
  BY <1>0, <1>4 DEF switchuvm, Content
<1>5. ASSUME sbrk(p) PROVE Content'
  <2>1. UNCHANGED <<mem, disk, pte, val, stale, pc, job>>
    BY <1>5 DEF sbrk
  <2>2. \A o \in Proc : sz'[o] \in {sz[o], sz[o] + 1}
    BY <1>0, <1>5 DEF sbrk, TypeOK
  <2> QED  BY <1>1, <2>1, <2>2
<1> QED  BY <1>2, <1>3, <1>4, <1>5

\* The job of a process that only gets a frame, a victim or a disk page.
WorkStep(p, l, j) ==
    /\ pc' = [pc EXCEPT ![p] = l] /\ job' = [job EXCEPT ![p] = j] /\ SameWork(job[p], j)
    /\ UNCHANGED <<mem, disk, pte, val, stale, sz>>

LEMMA WorkKept ==
    ASSUME KeptInv, NEW p \in Proc, NEW l \in {"have", "victim", "write"}, NEW j,
           pc[p] \in {"kalloc", "victim", "again"}, WorkStep(p, l, j),
           "fork" \in Ops => l = "have"
    PROVE  Content'
<1>0. PagingInv /\ Content
  BY DEF KeptInv
<1>1. JobKept(pc[p], job[p], pte[p])
  BY <1>0 DEF Content
<1>2. JobKept(l, j, pte[p])
  BY <1>1 DEF JobKept, SameWork, WorkStep
<1>3. j.child = job[p].child /\ j.page = job[p].page /\ pc[p] # "embryo"
  BY DEF SameWork, WorkStep
<1> QED  BY <1>0, <1>2, <1>3, QuietLocal DEF WorkStep

LEMMA KallocKept ==
    ASSUME KeptInv, "fork" \in Ops => Tame, NEW p \in Proc,
           kalloc(p) \/ kalloc_again(p) \/ swap_page(p)
    PROVE  Content'
<1>0. PagingInv /\ Content /\ TypeOK /\ job[p] \in Job /\ job \in [Proc -> Job]
  BY Typing DEF KeptInv, PagingInv, TypeOK, Job
<1>1. pc[p] \in {"kalloc", "victim", "again"}
  BY DEF kalloc, kalloc_again, swap_page, At
<1>2. ASSUME free # {}, job' = [job EXCEPT ![p].got = NextFree], pc' = [pc EXCEPT ![p] = "have"],
             UNCHANGED <<mem, disk, pte, val, stale, sz>>
      PROVE  Content'
  <2>1. PICK j : j = [job[p] EXCEPT !.got = NextFree]
    OBVIOUS
  <2>2. NextFree \in Frame \cup {Null}
    BY <1>0, <1>2, NextFreeIn DEF TypeOK
  <2>3. SameWork(job[p], j)
    BY <1>0, <2>1, <2>2, GotSet
  <2>4. job' = [job EXCEPT ![p] = j]
    BY <1>0, <1>2, <2>1
  <2>5. WorkStep(p, "have", j)
    BY <1>2, <2>3, <2>4 DEF WorkStep
  <2> QED  BY <1>1, <2>5, WorkKept
<1>3. ASSUME Stop("null pte") \/ Stop("balloc: out of blocks") \/ Stop("null frame") PROVE Content'
  <2>1. UNCHANGED <<mem, disk, pte, val, stale, sz, pc, job>>
    BY <1>3 DEF Stop
  <2> QED  BY <1>0, <2>1 DEF Content
<1>4. CASE kalloc(p)
  <2>1. CASE free # {}
    BY <1>2, <1>4, <2>1 DEF kalloc, goto
  <2>2. CASE free = {}
    <3>1. /\ pc[p] = "kalloc" /\ pc' = [pc EXCEPT ![p] = "victim"]
          /\ UNCHANGED <<mem, disk, pte, val, stale, sz, job>>
      BY <1>4, <2>2 DEF kalloc, At, goto
    <3>2. "fork" \notin Ops
      <4>1. SUFFICES ASSUME "fork" \in Ops PROVE FALSE
        OBVIOUS
      <4>2. NearOnly /\ Tame /\ Whole(Held, Avail) /\ Tidy
        BY <4>1 DEF KeptInv, OwnedInv
      <4> QED  BY <1>0, <2>2, <3>1, <4>1, <4>2, FrameForAll
    <3>3. PICK j : j = job[p]
      OBVIOUS
    <3>4. WorkStep(p, "victim", j)
      BY <1>0, <3>1, <3>3 DEF WorkStep, SameWork
    <3> QED  BY <1>1, <3>2, <3>4, WorkKept
  <2> QED  BY <2>1, <2>2
<1>5. CASE kalloc_again(p)
  BY <1>2, <1>3, <1>5 DEF kalloc_again, goto
<1>6. CASE swap_page(p)
  <2>1. pc[p] = "victim" /\ "fork" \notin Ops
    BY <1>0, <1>6 DEF swap_page, At, Content, JobKept
  <2>2. \/ Stop("null pte") \/ Stop("balloc: out of blocks")
        \/ \E d \in freedisk, v \in select_a_victim(p) :
              /\ job' = [job EXCEPT ![p].victim = v, ![p].disk = d]
              /\ pc' = [pc EXCEPT ![p] = "write"]
              /\ UNCHANGED <<mem, disk, pte, val, stale, sz>>
    <3>1. ASSUME select_a_victim(p) # {}
          PROVE  Min(select_a_victim(p)) \in select_a_victim(p)
      <4>1. select_a_victim(p) \in SUBSET Nat
        BY DEF select_a_victim, Page
      <4> QED  BY <3>1, <4>1, MinIn
    <3> QED  BY <1>6, <3>1 DEF swap_page, goto
  <2>3. ASSUME NEW d \in freedisk, NEW v \in select_a_victim(p),
               job' = [job EXCEPT ![p].victim = v, ![p].disk = d],
               pc' = [pc EXCEPT ![p] = "write"], UNCHANGED <<mem, disk, pte, val, stale, sz>>
        PROVE  Content'
    <3>1. PICK j : j = [job[p] EXCEPT !.victim = v, !.disk = d]
      OBVIOUS
    <3>2. v \in Page /\ d \in Disk
      BY <1>0 DEF select_a_victim, TypeOK
    <3>3. SameWork(job[p], j)
      BY <1>0, <3>1 DEF Job, SameWork
    <3>4. job' = [job EXCEPT ![p] = j]
      BY <1>0, <2>3, <3>1
    <3>5. WorkStep(p, "write", j)
      BY <2>3, <3>3, <3>4 DEF WorkStep
    <3> QED  BY <1>1, <2>1, <3>5, WorkKept
  <2> QED  BY <1>3, <2>2, <2>3
<1> QED  BY <1>4, <1>5, <1>6

\* The page goes to the disk and its frame to kfree().
LEMMA WriteKept ==
    ASSUME KeptInv, TLB = FALSE, NEW p \in Proc, swap_page_from_pte(p)
    PROVE  Content'
<1> USE Constants
<1>0. PagingInv /\ Content /\ TypeOK /\ job[p] \in Job /\ JobOK(pc[p], job[p], pte[p], sz[p])
      /\ JobKept(pc[p], job[p], pte[p])
  BY Typing DEF KeptInv, PagingInv, Content, Jobs
<1>1. PICK v, f, d : v = job[p].victim /\ f = pte[p][v].at /\ d = job[p].disk
  OBVIOUS
<1>2. pc[p] = "write" /\ v \in Page /\ f \in Frame /\ d \in Disk
  BY <1>0, <1>1 DEF swap_page_from_pte, At, JobOK, Job
<1>3. CASE files = NFILE
  <2>1. UNCHANGED <<mem, disk, pte, val, stale, sz, pc, job>>
    BY <1>3 DEF swap_page_from_pte, Stop
  <2> QED  BY <1>0, <2>1 DEF Content
<1>4. CASE files # NFILE
  <2>1. PICK e : e = Entry(d, FALSE, FALSE)
    OBVIOUS
  <2>2. e.at = d /\ d \notin Frame /\ d # Null
    BY <1>2, <2>1 DEF Entry
  <2>3. /\ SetEntry(p, v, e)
        /\ disk' = [disk EXCEPT ![d] = mem[f]] /\ mem' = [mem EXCEPT ![f] = Junk]
        /\ UNCHANGED <<sz, val>>
    BY <1>1, <1>4, <2>1 DEF swap_page_from_pte, Written, Evicted, SetEntry
  <2>4. \A o \in Proc : stale'[o] = NoStale
    <3>1. \A o \in Proc : stale[o] = NoStale
      BY <1>0 DEF Content
    <3>2. stale \in [Proc -> [Page -> Frame \cup {Null}]]
      BY <1>0 DEF TypeOK
    <3>3. stale' = [stale EXCEPT ![p] = NoStale] \/ stale' = [stale EXCEPT ![p][v] = Null]
      BY <1>1, <1>4 DEF swap_page_from_pte
    <3>4. [NoStale EXCEPT ![v] = Null] = NoStale
      BY DEF NoStale
    <3> QED  BY <3>1, <3>2, <3>3, <3>4
  <2>5. /\ pte'[p][v] = e /\ \A o \in Proc : o # p => pte'[o] = pte[o]
        /\ \A o \in Proc, w \in Page : o # p \/ w # v => pte'[o][w] = pte[o][w]
    BY <1>0, <1>2, <2>3, EntrySet
  <2>6. \A o \in Proc, w \in Page : /\ o # p \/ w # v => pte[o][w].at # f
                                    /\ pte[o][w].at # d
    BY <1>0, <1>1, <1>2, Apart DEF Resource
  <2>7. /\ \A g \in Frame : g # f => mem'[g] = mem[g]
        /\ \A g \in Disk : g # d => disk'[g] = disk[g]
        /\ disk'[d] = mem[f]
    BY <1>0, <1>2, <2>3 DEF TypeOK
  <2>8. OneEntry(p, v)
    BY <2>3, <2>4, <2>5, <2>6, <2>7 DEF OneEntry
  <2>9. Holds(pte'[p][v], mem', disk', val'[p][v])
    <3>1. Holds(pte[p][v], mem, disk, val[p][v])
      BY <1>0, <1>2 DEF Content
    <3>2. mem[f] = val[p][v]
      BY <1>1, <1>2, <3>1 DEF Holds
    <3> QED  BY <2>2, <2>3, <2>5, <2>7, <3>2 DEF Holds
  <2>10. CASE job[p].what = "swap"
    <3>1. pc' = [pc EXCEPT ![p] = "user"] /\ job' = [job EXCEPT ![p] = NoJob]
      BY <1>4, <2>10 DEF swap_page_from_pte, Back, goto
    <3>2. OwnEntry(p, v, NoJob) /\ JobKept("user", NoJob, pte'[p])
      BY <2>9, NoJobTyped, KeptIdle DEF OwnEntry
    <3> QED  BY <1>0, <1>2, <2>8, <3>1, <3>2, EntryContent
  <2>11. CASE job[p].what # "swap"
    <3>1. PICK j : j = [job[p] EXCEPT !.victim = 0, !.disk = Null]
      OBVIOUS
    <3>2. SameWork(job[p], j)
      BY <1>0, <3>1 DEF Job, SameWork
    <3>3. pc' = [pc EXCEPT ![p] = "again"] /\ job' = [job EXCEPT ![p] = j]
      BY <1>0, <1>4, <2>11, <3>1 DEF swap_page_from_pte, goto, TypeOK
    <3>4. "fork" \notin Ops
      BY <1>0, <1>2, <2>11 DEF JobKept
    <3>5. job[p].what # "copy" /\ job[p].what # "none"
      BY <1>0, <1>2, <3>4 DEF JobOK
    <3>6. JobKept("again", j, pte'[p])
      <4>1. CASE job[p].page = v
        BY <2>2, <2>5, <3>2, <3>4, <3>5, <4>1 DEF JobKept, SameWork
      <4>2. CASE job[p].page # v /\ job[p].what = "fault"
        <5>1. job[p].page \in Page
          BY <1>0, <4>2, Typing DEF JobOK, Job, Page, Faults
        <5>2. pte'[p][job[p].page] = pte[p][job[p].page]
          BY <2>5, <4>2, <5>1
        <5> QED  BY <1>0, <3>2, <3>4, <3>5, <5>2 DEF JobKept, SameWork
      <4>3. CASE job[p].what # "fault"
        BY <3>2, <3>4, <3>5, <4>3 DEF JobKept, SameWork
      <4> QED  BY <4>1, <4>2, <4>3
    <3>7. OwnEntry(p, v, j)
      BY <2>3, <2>9, <3>2 DEF OwnEntry, SameWork
    <3> QED  BY <1>0, <1>2, <2>8, <3>3, <3>6, <3>7, EntryContent
  <2> QED  BY <2>10, <2>11
<1> QED  BY <1>3, <1>4

\* The rest of map_address(), and of copyuvm() for a page that it reads in.
LEMMA MapKept ==
    ASSUME KeptInv, NEW p \in Proc, map_swapped(p) \/ copy_in(p) \/ map_zeroed(p)
    PROVE  Content'
<1> USE Constants
<1>0. PagingInv /\ Content /\ TypeOK /\ pc[p] = "have"
  BY DEF KeptInv, PagingInv, map_swapped, copy_in, map_zeroed, At
<1>1. PICK v, f : v = job[p].page /\ f = job[p].got
  OBVIOUS
<1>2. /\ job[p] \in Job /\ JobOK("have", job[p], pte[p], sz[p]) /\ v \in Page /\ f \in Frame
      /\ pte[p][v] \in Pte
  BY <1>0, <1>1, HaveFacts
<1>3. PICK e : e = Entry(f, TRUE, FALSE)
  OBVIOUS
<1>4. e.at = f /\ e.u = TRUE /\ f # Null /\ f \notin Disk
  BY <1>2, <1>3 DEF Entry
<1>5. JobKept("have", job[p], pte[p]) /\ Holds(pte[p][v], mem, disk, val[p][v])
      /\ \A o \in Proc : stale[o] = NoStale
  BY <1>0, <1>2 DEF Content
<1>6. /\ SetEntry(p, v, e) /\ UNCHANGED <<disk, sz, val>>
      /\ \/ mem' = [mem EXCEPT ![f] = disk[pte[p][v].at]] /\ pte[p][v].at \in Disk
         \/ mem' = [mem EXCEPT ![f] = Zero] /\ job[p].what = "fault" /\ pte[p][v].at \notin Disk
  BY <1>1, <1>2, <1>3 DEF map_swapped, copy_in, map_zeroed, ReadIn, SetEntry, Swapped, JobOK
<1>7. \A o \in Proc : stale'[o] = NoStale
  <2>1. stale' = stale \/ stale' = [stale EXCEPT ![p] = NoStale]
    BY DEF map_swapped, copy_in, map_zeroed, ReadIn
  <2>2. stale \in [Proc -> [Page -> Frame \cup {Null}]]
    BY <1>0 DEF TypeOK
  <2> QED  BY <1>5, <2>1, <2>2
<1>8. /\ pte'[p][v] = e /\ \A o \in Proc : o # p => pte'[o] = pte[o]
      /\ \A o \in Proc, w \in Page : o # p \/ w # v => pte'[o][w] = pte[o][w]
  BY <1>0, <1>2, <1>6, EntrySet
<1>9. \A o \in Proc, w \in Page : pte[o][w].at # f
  BY <1>0, <1>1, <1>2, Apart DEF Resource
<1>10. \A g \in Frame : g # f => mem'[g] = mem[g]
  BY <1>0, <1>2, <1>6 DEF TypeOK
<1>11. OneEntry(p, v)
  BY <1>6, <1>7, <1>8, <1>9, <1>10 DEF OneEntry
<1>12. mem'[f] = val[p][v]
  <2>1. CASE mem' = [mem EXCEPT ![f] = disk[pte[p][v].at]] /\ pte[p][v].at \in Disk
    BY <1>0, <1>2, <1>5, <2>1 DEF TypeOK, Holds
  <2>2. CASE mem' = [mem EXCEPT ![f] = Zero] /\ job[p].what = "fault" /\ pte[p][v].at \notin Disk
    <3>1. mem'[f] = Zero
      BY <1>0, <1>2, <2>2 DEF TypeOK
    <3>2. pte[p][v].at = Null \/ (pte[p][v].at \in Frame /\ pte[p][v].u # TRUE)
      BY <1>1, <1>2, <1>5, <2>2 DEF JobKept, Pte
    <3> QED  BY <1>5, <3>1, <3>2 DEF Holds
  <2> QED  BY <1>6, <2>1, <2>2
<1>13. Holds(pte'[p][v], mem', disk', val'[p][v])
  BY <1>4, <1>6, <1>8, <1>12 DEF Holds
<1>14. CASE map_swapped(p) \/ map_zeroed(p)
  <2>1. pc' = [pc EXCEPT ![p] = "user"] /\ job' = [job EXCEPT ![p] = NoJob]
    BY <1>14 DEF map_swapped, map_zeroed, Back, goto
  <2>2. OwnEntry(p, v, NoJob) /\ JobKept("user", NoJob, pte'[p])
    BY <1>13, NoJobTyped, KeptIdle DEF OwnEntry
  <2> QED  BY <1>0, <1>2, <1>11, <2>1, <2>2, EntryContent
<1>15. CASE copy_in(p)
  <2>1. PICK j : j = [job[p] EXCEPT !.got = Null]
    OBVIOUS
  <2>2. SameWork(job[p], j)
    BY <1>2, <2>1, GotSet
  <2>3. pc' = [pc EXCEPT ![p] = "copy"] /\ job' = [job EXCEPT ![p] = j] /\ job[p].what = "in"
    BY <1>0, <1>15, <2>1 DEF copy_in, goto, TypeOK
  <2>4. OwnEntry(p, v, j)
    BY <1>6, <1>13, <2>2 DEF OwnEntry, SameWork
  <2>5. JobKept("copy", j, pte'[p])
    BY <2>2, <2>3 DEF JobKept, SameWork
  <2> QED  BY <1>0, <1>2, <1>11, <2>3, <2>4, <2>5, EntryContent
<1> QED  BY <1>14, <1>15

\* Steps of fork() and of map_address() that write no page.
LEMMA ForkKept ==
    ASSUME KeptInv, NEW p \in Proc,
           map_nothing(p) \/ copyuvm(p) \/ \E q \in Proc : fork(p, q)
    PROVE  Content'
<1>0. /\ PagingInv /\ Content /\ TypeOK /\ job[p] \in Job /\ job \in [Proc -> Job]
      /\ pc \in [Proc -> PC]
  BY Typing DEF KeptInv, PagingInv, TypeOK, Job
<1>1. CASE map_nothing(p)
  <2>1. /\ pc[p] = "have" /\ pc' = [pc EXCEPT ![p] = "user"] /\ job' = [job EXCEPT ![p] = NoJob]
        /\ UNCHANGED <<mem, disk, pte, val, stale, sz>>
    BY <1>1 DEF map_nothing, At, Back, goto
  <2>2. JobKept("user", NoJob, pte[p]) /\ NoJob.child = 0
    BY KeptIdle, NoJobTyped
  <2> QED  BY <1>0, <2>1, <2>2, QuietLocal
<1>2. CASE copyuvm(p)
  <2>1. CASE Stop("copyuvm: pte should exist")
    <3>1. UNCHANGED <<mem, disk, pte, val, stale, sz, pc, job>>
      BY <2>1 DEF Stop
    <3> QED  BY <1>0, <3>1 DEF Content
  <2>2. CASE ~Stop("copyuvm: pte should exist")
    <3>1. PICK v, w : v = job[p].page /\ w = IF Swapped(p, v) THEN "in" ELSE "copy"
      OBVIOUS
    <3>2. PICK j : j = [job[p] EXCEPT !.what = w, !.pte = pte[p][v]]
      OBVIOUS
    <3>3. j.child = job[p].child /\ j.page = v /\ j.what = w /\ j.pte = pte[p][v]
      BY <1>0, <3>1, <3>2 DEF Job
    <3>4. /\ pc[p] = "copy" /\ pc' = [pc EXCEPT ![p] = "kalloc"]
          /\ UNCHANGED <<mem, disk, pte, val, stale, sz>>
          /\ job' = [job EXCEPT ![p].what = w, ![p].pte = pte[p][v]]
      BY <1>2, <2>2, <3>1 DEF copyuvm, At, goto
    <3>5. job' = [job EXCEPT ![p] = j]
      BY <1>0, <3>2, <3>4
    <3>6. JobKept("kalloc", j, pte[p])
      BY <3>1, <3>3 DEF JobKept
    <3> QED  BY <1>0, <3>1, <3>3, <3>4, <3>5, <3>6, QuietLocal
  <2> QED  BY <2>1, <2>2
<1>3. ASSUME NEW q \in Proc, fork(p, q) PROVE Content'
  <2>1. PICK j : j = [NoJob EXCEPT !.child = q]
    OBVIOUS
  <2>2. j.page = 0 /\ j.what = "none"
    BY <2>1 DEF NoJob
  <2>3. /\ pc[p] = "user" /\ pc[q] = "unused" /\ p # q
        /\ pc' = [pc EXCEPT ![p] = "copy", ![q] = "embryo"] /\ job' = [job EXCEPT ![p] = j]
        /\ UNCHANGED <<mem, disk, pte, val, stale, sz>>
    BY <1>3, <2>1 DEF fork, At
  <2>4. /\ pc'[p] = "copy" /\ pc'[q] = "embryo" /\ job'[p] = j
        /\ \A o \in Proc \ {p} : job'[o] = job[o]
        /\ \A o \in Proc \ {p, q} : pc'[o] = pc[o]
    BY <1>0, <2>3
  <2>5. ASSUME NEW o \in Proc PROVE JobKept(pc'[o], job'[o], pte[o])
    <3>1. CASE o = p
      BY <2>2, <2>4, <3>1 DEF JobKept
    <3>2. CASE o = q
      <4>1. job[q] = NoJob
        BY <1>0, <2>3 DEF PagingInv, Jobs, JobOK
      <4> QED  BY <2>3, <2>4, <3>2, <4>1, KeptIdle
    <3>3. CASE o # p /\ o # q
      BY <1>0, <2>4, <3>3 DEF Content
    <3> QED  BY <3>1, <3>2, <3>3
  <2>6. \A o \in Proc : pc[o] = "embryo" => pc'[o] = "embryo"
    BY <2>3, <2>4
  <2>7. \A o \in Proc : \/ job'[o].child = 0 \/ job'[o].page = 0
                        \/ job'[o].child = job[o].child /\ job'[o].page = job[o].page
    BY <2>2, <2>4
  <2>8. UNCHANGED <<mem, disk, pte, val, stale>> /\ \A o \in Proc : sz'[o] = sz[o]
    BY <2>3
  <2> QED  BY <1>0, <2>5, <2>6, <2>7, <2>8, QuietContent
<1> QED  BY <1>1, <1>2, <1>3

\* memmove() for the child: the page is where copyuvm() found it.
LEMMA CopyKept ==
    ASSUME KeptInv, NEW p \in Proc, copy_page(p)
    PROVE  Content'
<1> USE Constants
<1>0. PagingInv /\ Content /\ TypeOK /\ pc[p] = "have" /\ job[p].what = "copy"
  BY DEF KeptInv, PagingInv, copy_page, At
<1>1. PICK v, q, f, a : v = job[p].page /\ q = job[p].child /\ f = job[p].got /\ a = job[p].pte.at
  OBVIOUS
<1>2. /\ q \in Proc /\ q # p /\ pc[q] = "embryo" /\ v \in Page /\ "fork" \in Ops /\ f \in Frame
  BY <1>0, <1>1, CopyFacts, HaveFacts
<1>3. Tidy
  BY <1>2 DEF KeptInv, OwnedInv
<1>4. a \in Frame /\ job[p].pte = pte[p][v]
  BY <1>0, <1>1, <1>3 DEF Tidy, Content, JobKept
<1>5. PICK e : e = Entry(f, job[p].pte.u, job[p].pte.a)
  OBVIOUS
<1>6. e.at = f /\ e.u = pte[p][v].u /\ f # Null /\ f \notin Disk
  BY <1>2, <1>4, <1>5 DEF Entry
<1>7. PICK j : j = [NoJob EXCEPT !.child = q, !.page = v + 1]
  OBVIOUS
<1>8. j.what = "none" /\ j.child = q /\ j.page = v + 1
  BY <1>7 DEF NoJob
<1>9. /\ SetEntry(q, v, e) /\ mem' = [mem EXCEPT ![f] = mem[a]]
      /\ job' = [job EXCEPT ![p] = j] /\ pc' = [pc EXCEPT ![p] = "copy"]
      /\ UNCHANGED <<disk, sz, stale, val>>
  BY <1>1, <1>4, <1>5, <1>7 DEF copy_page, CopyTo, goto, SetEntry
<1>10. /\ pte'[q][v] = e /\ \A o \in Proc : o # q => pte'[o] = pte[o]
       /\ \A o \in Proc, w \in Page : o # q \/ w # v => pte'[o][w] = pte[o][w]
  BY <1>0, <1>2, <1>9, EntrySet
<1>11. \A o \in Proc, w \in Page : pte[o][w].at # f
  BY <1>0, <1>1, <1>2, Apart DEF Resource
<1>12. mem'[f] = mem[a] /\ \A g \in Frame : g # f => mem'[g] = mem[g]
  BY <1>0, <1>2, <1>9 DEF TypeOK
<1>13. OneEntry(q, v)
  <2>1. \A o \in Proc : stale'[o] = NoStale
    BY <1>0, <1>9 DEF Content
  <2> QED  BY <1>9, <1>10, <1>11, <1>12, <2>1 DEF OneEntry
<1>14. Holds(pte[p][v], mem, disk, val[p][v])
  BY <1>0, <1>2 DEF Content
<1>15. Holds(pte'[q][v], mem', disk', val[p][v])
  BY <1>1, <1>2, <1>4, <1>6, <1>10, <1>12, <1>14 DEF Holds
<1>16. ChildEntry(p, q, v, j)
  BY <1>1, <1>2, <1>8, <1>9, <1>15 DEF ChildEntry
<1>17. JobKept("copy", j, pte'[p])
  BY <1>8 DEF JobKept
<1> QED  BY <1>0, <1>2, <1>9, <1>13, <1>16, <1>17, EntryContent

\* The child has what the parent has.
LEMMA ForkDoneKept ==
    ASSUME KeptInv, NEW p \in Proc, fork_done(p)
    PROVE  Content'
<1> USE Constants
<1>0. PagingInv /\ Content /\ TypeOK /\ job[p] \in Job /\ JobOK(pc[p], job[p], pte[p], sz[p])
  BY Typing DEF KeptInv, PagingInv, Jobs
<1>1. PICK q : q = job[p].child
  OBVIOUS
<1>2. /\ pc[p] = "copy" /\ job[p].page = sz[p]
      /\ sz' = [sz EXCEPT ![q] = sz[p]] /\ val' = [val EXCEPT ![q] = val[p]]
      /\ job' = [job EXCEPT ![p] = NoJob]
      /\ pc' = [pc EXCEPT ![p] = "user", ![q] = "user"]
      /\ UNCHANGED <<mem, disk, pte, stale>>
  BY <1>1 DEF fork_done, At
<1>3. q # 0 /\ q \in Proc /\ q # p /\ pc[q] = "embryo" /\ "fork" \in Ops
  BY <1>0, <1>1, <1>2 DEF JobOK, PagingInv, Children, Job, Proc
<1>4. Copied(q, sz[p])
  BY <1>1, <1>2, <1>3 DEF KeptInv, OwnedInv, Tidy
<1>5. /\ pc'[p] = "user" /\ pc'[q] = "user" /\ job'[p] = NoJob
      /\ \A o \in Proc \ {p} : job'[o] = job[o]
      /\ \A o \in Proc \ {p, q} : pc'[o] = pc[o]
      /\ sz'[q] = sz[p] /\ val'[q] = val[p]
      /\ \A o \in Proc \ {q} : sz'[o] = sz[o] /\ val'[o] = val[o]
  BY <1>0, <1>2, <1>3 DEF TypeOK
<1>6. job[q] = NoJob
  BY <1>0, <1>3 DEF PagingInv, Jobs, JobOK
<1>7. ASSUME NEW o \in Proc, NEW w \in Page, pc'[o] # "embryo"
      PROVE  Holds(pte'[o][w], mem', disk', val'[o][w])
  <2>1. CASE o = q
    <3>1. CASE w < sz[p]
      <4>1. Holds(pte[q][w], mem, disk, val[p][w])
        BY <1>0, <1>1, <1>2, <1>3, <3>1 DEF Content
      <4> QED  BY <1>2, <1>5, <2>1, <4>1
    <3>2. CASE ~(w < sz[p])
      <4>1. w >= sz[p]
        BY <1>0, <3>2, Typing DEF Page
      <4>2. val[p][w] = Zero
        BY <1>0, <4>1 DEF Content
      <4>3. pte[q][w].at = Null
        BY <1>4, <3>2 DEF Copied
      <4> QED  BY <1>2, <1>5, <2>1, <4>2, <4>3 DEF Holds
    <3> QED  BY <3>1, <3>2
  <2>2. CASE o # q
    <3>1. pc[o] # "embryo"
      BY <1>2, <1>5, <1>7, <2>2
    <3> QED  BY <1>0, <1>2, <1>5, <2>2, <3>1 DEF Content
  <2> QED  BY <2>1, <2>2
<1>8. \A o \in Proc, w \in Page : w >= sz'[o] => val'[o][w] = Zero
  BY <1>0, <1>5 DEF Content
<1>9. ASSUME NEW o \in Proc, NEW w \in Page, job'[o].child # 0, w < job'[o].page
      PROVE  Holds(pte'[job'[o].child][w], mem', disk', val'[o][w])
  <2>1. o # p /\ o # q
    BY <1>5, <1>6, <1>9, <1>3, NoJobTyped
  <2>2. job'[o] = job[o] /\ val'[o] = val[o]
    BY <1>5, <2>1
  <2>3. Holds(pte[job[o].child][w], mem, disk, val[o][w])
    BY <1>0, <1>9, <2>2 DEF Content
  <2> QED  BY <1>2, <2>2, <2>3
<1>10. ASSUME NEW o \in Proc PROVE JobKept(pc'[o], job'[o], pte'[o])
  <2>1. CASE o = p
    BY <1>5, <2>1, KeptIdle
  <2>2. CASE o = q
    BY <1>3, <1>5, <1>6, <2>2, KeptIdle
  <2>3. CASE o # p /\ o # q
    BY <1>0, <1>2, <1>5, <2>3 DEF Content
  <2> QED  BY <2>1, <2>2, <2>3
<1>11. \A o \in Proc : stale'[o] = NoStale
  BY <1>0, <1>2 DEF Content
<1> QED  BY <1>7, <1>8, <1>9, <1>10, <1>11 DEF Content

\* The pages of the others are as they were.
LEMMA ExitKept ==
    ASSUME KeptInv, NEW p \in Proc, exit(p)
    PROVE  Content'
<1> USE Constants
<1>0. PagingInv /\ Content /\ TypeOK
  BY DEF KeptInv, PagingInv
<1>1. /\ pc[p] = "user" /\ freevm(p) /\ pc' = [pc EXCEPT ![p] = "unused"]
      /\ sz' = [sz EXCEPT ![p] = 0] /\ stale' = [stale EXCEPT ![p] = NoStale]
      /\ val' = [val EXCEPT ![p] = [v \in Page |-> Zero]] /\ UNCHANGED <<disk, job>>
  BY DEF exit, At, goto
<1>2. /\ \A o \in Proc \ {p} : pte'[o] = pte[o]
      /\ \A v \in Page : pte'[p][v] = NoPte
  BY <1>0, <1>1, FreevmTyped
<1>3. /\ pc'[p] = "unused" /\ sz'[p] = 0 /\ stale'[p] = NoStale
      /\ \A v \in Page : val'[p][v] = Zero
      /\ \A o \in Proc \ {p} : /\ pc'[o] = pc[o] /\ sz'[o] = sz[o] /\ stale'[o] = stale[o]
                               /\ val'[o] = val[o]
  BY <1>0, <1>1 DEF TypeOK
<1>4. ASSUME NEW o \in Proc, NEW w \in Page, o # p, pte[o][w].at \in Frame
      PROVE  mem'[pte[o][w].at] = mem[pte[o][w].at]
  <2>1. PICK f, x : f = pte[o][w].at /\ x = <<"pte", o, w>>
    OBVIOUS
  <2>2. x \in Place /\ Held[x] = f /\ f \in Resource
    BY <1>4, <2>1, PlaceIs DEF Resource
  <2>3. x \notin Tables(p) /\ Tables(p) \subseteq Place
    <3>1. Tables(p) \subseteq Place
      BY TablesIn
    <3>2. x[1] = "pte" /\ x[2] = o
      BY <2>1
    <3>3. \A y \in Tables(p) : y[1] \in {"dir", "tab"} \/ y[2] = p
      BY DEF Tables
    <3> QED  BY <1>4, <3>1, <3>2, <3>3
  <2>4. f \notin Avail /\ \A y \in Tables(p) : Held[y] # f
    BY <1>0, <2>2, <2>3 DEF PagingInv, Owned
  <2>5. f \notin Avail'
    BY <1>0, <1>1, <2>2, <2>4, FreevmAvail
  <2>6. f \notin free'
    BY <2>5 DEF Avail
  <2>7. mem' = [g \in Frame |-> IF g \in free' \ free THEN Junk ELSE mem[g]]
    BY <1>1 DEF freevm
  <2> QED  BY <1>4, <2>1, <2>6, <2>7
<1>5. ASSUME NEW o \in Proc, NEW w \in Page, NEW x, o # p, Holds(pte[o][w], mem, disk, x)
      PROVE  Holds(pte'[o][w], mem', disk', x)
  BY <1>1, <1>2, <1>4, <1>5, HoldsSame
<1>6. ASSUME NEW o \in Proc, NEW w \in Page, pc'[o] # "embryo"
      PROVE  Holds(pte'[o][w], mem', disk', val'[o][w])
  <2>1. CASE o = p
    <3>1. pte'[p][w] = NoPte /\ val'[p][w] = Zero
      BY <1>2, <1>3
    <3>2. NoPte.at = Null
      BY DEF NoPte, Entry
    <3>3. Holds(NoPte, mem', disk', Zero)
      BY <3>2 DEF Holds
    <3> QED  BY <2>1, <3>1, <3>3
  <2>2. CASE o # p
    <3>1. Holds(pte[o][w], mem, disk, val[o][w]) /\ val'[o][w] = val[o][w]
      BY <1>0, <1>3, <1>6, <2>2 DEF Content
    <3> QED  BY <1>5, <2>2, <3>1
  <2> QED  BY <2>1, <2>2
<1>7. \A o \in Proc, w \in Page : w >= sz'[o] => val'[o][w] = Zero
  BY <1>0, <1>3 DEF Content
<1>8. job[p] = NoJob
  BY <1>0, <1>1 DEF PagingInv, Jobs, JobOK
<1>9. ASSUME NEW o \in Proc, NEW w \in Page, job'[o].child # 0, w < job'[o].page
      PROVE  Holds(pte'[job'[o].child][w], mem', disk', val'[o][w])
  <2>1. PICK c : c = job[o].child
    OBVIOUS
  <2>2. job'[o].child = c /\ job'[o].page = job[o].page /\ c # 0 /\ o # p
    BY <1>1, <1>8, <1>9, <2>1, NoJobTyped
  <2>3. c \in Proc /\ pc[c] = "embryo" /\ c # p
    BY <1>0, <1>1, <2>1, <2>2, Typing DEF PagingInv, Children, Job, Proc
  <2>4. Holds(pte[c][w], mem, disk, val[o][w]) /\ val'[o][w] = val[o][w]
    BY <1>0, <1>3, <1>9, <2>1, <2>2 DEF Content
  <2> QED  BY <1>5, <2>2, <2>3, <2>4
<1>10. ASSUME NEW o \in Proc PROVE JobKept(pc'[o], job'[o], pte'[o])
  <2>1. CASE o = p
    BY <1>1, <1>3, <1>8, <2>1, KeptIdle
  <2>2. CASE o # p
    BY <1>0, <1>1, <1>2, <1>3, <2>2 DEF Content
  <2> QED  BY <2>1, <2>2
<1>11. \A o \in Proc : stale'[o] = NoStale
  BY <1>0, <1>3 DEF Content
<1> QED  BY <1>6, <1>7, <1>9, <1>10, <1>11 DEF Content

LEMMA KeptStep ==
    ASSUME KeptInv, TLB = FALSE, "fork" \in Ops => Tame, [Next]_vars
    PROVE  Content'
<1>0. PagingInv /\ Content
  BY DEF KeptInv
<1>1. ASSUME NEW p \in Proc, copy_fails(p) PROVE FALSE
  <2>1. pc[p] = "have" /\ job[p].what = "copy"
    BY <1>1 DEF copy_fails, At
  <2>2. "fork" \in Ops
    BY <1>0, <2>1, CopyFacts
  <2> QED  BY <1>0, <1>1, <2>2, CopyFails DEF KeptInv
<1>2. ASSUME NEW p \in Proc, NEW v \in Touchable(p), NEW write \in BOOLEAN, Touch(p, v, write)
      PROVE  Content'
  BY <1>2, TouchKept
<1>3. ASSUME NEW p \in Proc,
             \/ \E v \in Touchable(p) : handle_pgfault(p, v)
             \/ \E v \in Page : sys_swap(p, v)
             \/ switchuvm(p) \/ sbrk(p)
      PROVE  Content'
  BY <1>3, UserKept
<1>4. ASSUME NEW p \in Proc, kalloc(p) \/ kalloc_again(p) \/ swap_page(p) PROVE Content'
  BY <1>4, KallocKept
<1>5. ASSUME NEW p \in Proc, map_swapped(p) \/ copy_in(p) \/ map_zeroed(p) PROVE Content'
  BY <1>5, MapKept
<1>6. ASSUME NEW p \in Proc, map_nothing(p) \/ copyuvm(p) \/ \E q \in Proc : fork(p, q)
      PROVE  Content'
  BY <1>6, ForkKept
<1>7. ASSUME NEW p \in Proc, copy_page(p) \/ fork_done(p) \/ exit(p) \/ swap_page_from_pte(p)
      PROVE  Content'
  BY <1>7, CopyKept, ForkDoneKept, ExitKept, WriteKept
<1>8. ASSUME Stopped \/ UNCHANGED vars PROVE Content'
  <2>1. UNCHANGED <<mem, disk, pte, val, stale, sz, pc, job>>
    BY <1>8 DEF Stopped, vars
  <2> QED  BY <1>0, <2>1 DEF Content
<1> QED  BY <1>1, <1>2, <1>3, <1>4, <1>5, <1>6, <1>7, <1>8 DEF Next

LEMMA KeptInit == ASSUME Init PROVE Content
<1> USE Constants
<1>1. ASSUME NEW p \in Proc, NEW v \in Page PROVE Holds(pte[p][v], mem, disk, val[p][v])
  <2>1. val[p][v] = Zero
    BY <1>1 DEF Init
  <2>2. CASE p <= NBOOT /\ v <= 2
    <3>1. p \in 1 .. NBOOT /\ v + 3 \in 1 .. 5
      BY <2>2 DEF Proc, Page
    <3>2. /\ Boot(p, v + 3) \in Frame /\ Boot(p, v + 3) \in 1 .. 5 * NBOOT
          /\ pte[p][v].at = Boot(p, v + 3)
      BY <2>2, <3>1, Boots DEF Init, Entry
    <3>3. Boot(p, v + 3) \notin free
      BY <3>2 DEF Init
    <3>4. mem[pte[p][v].at] = Zero
      BY <3>2, <3>3 DEF Init
    <3> QED  BY <2>1, <3>2, <3>4 DEF Holds
  <2>3. CASE ~(p <= NBOOT /\ v <= 2)
    <3>1. pte[p][v].at = Null
      BY <2>3 DEF Init, NoPte, Entry
    <3> QED  BY <2>1, <3>1 DEF Holds
  <2> QED  BY <2>2, <2>3
<1>2. \A p \in Proc : pc[p] \in {"user", "unused"} /\ job[p] = NoJob /\ stale[p] = NoStale
  BY DEF Init
<1>3. \A p \in Proc, v \in Page : val[p][v] = Zero
  BY DEF Init
<1>4. \A p \in Proc : JobKept(pc[p], job[p], pte[p])
  BY <1>2, KeptIdle
<1> QED  BY <1>1, <1>2, <1>3, <1>4, NoJobTyped DEF Content

\* What a process finds is what it has written, or had from its parent.
LEMMA KeptMeans == ASSUME KeptInv PROVE MemoryKept
<1> SUFFICES ASSUME NEW p \in Proc, pc[p] \notin {"unused", "embryo"}, NEW v \in 0 .. sz[p] - 1
             PROVE  Found(p, v) = val[p][v]
  BY DEF MemoryKept
<1>1. PagingInv /\ Content /\ sz[p] \in 0 .. MaxPages
  BY Typing DEF KeptInv, PagingInv
<1>2. v \in Page
  BY <1>1, Constants DEF Page
<1>3. Holds(pte[p][v], mem, disk, val[p][v]) /\ stale[p][v] = Null /\ pte[p][v] \in Pte
  BY <1>1, <1>2, Typing DEF Content, NoStale, PagingInv
<1>4. CASE pte[p][v].at \in Disk
  BY <1>3, <1>4, Constants DEF Found, Swapped, Holds
<1>5. CASE pte[p][v].at \in Frame
  BY <1>3, <1>5, Constants DEF Found, Swapped, Present, Holds, Pte
<1>6. CASE pte[p][v].at = Null
  BY <1>3, <1>6, Constants DEF Found, Swapped, Present, Holds
<1> QED  BY <1>3, <1>4, <1>5, <1>6 DEF Pte

\* swap_page(), map_address(), copyuvm(), freevm(): where sys_swap() leaves no entry in
\* the TLB and processes do not fork, or only Tame ones do, every process finds in its
\* memory what it has written there or had from its parent, wherever the page has been.
THEOREM KeptTheorem ==
    ASSUME TLB = FALSE, "fork" \in Ops => Tame
    PROVE  Spec => []MemoryKept
<1>1. Init => KeptInv
  <2>1. Init => NearOnly
    BY DEF Init, NearOnly, Region
  <2> QED  BY <2>1, Initially, InitOwned, InitTidy, KeptInit DEF KeptInv, OwnedInv
<1>2. KeptInv /\ [Next]_vars => KeptInv'
  <2> SUFFICES ASSUME KeptInv, [Next]_vars PROVE KeptInv'
    OBVIOUS
  <2>1. Content'
    BY KeptStep
  <2>2. PagingInv' /\ ("fork" \in Ops => OwnedInv')
    BY Step DEF KeptInv
  <2>3. "fork" \in Ops => NearOnly'
    BY NearOnlyStep DEF KeptInv
  <2> QED  BY <2>1, <2>2, <2>3 DEF KeptInv
<1>3. KeptInv => MemoryKept
  BY KeptMeans
<1> QED  BY <1>1, <1>2, <1>3, PTL DEF Spec

===========================================================================
