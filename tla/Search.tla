------------------------------- MODULE Search -------------------------------
(***************************************************************************)
(* What the scan of CheckCache promises, with the scores that the embedder *)
(* and CosineSimilarity give (Embedding).  A scan looks at one slot after  *)
(* the other while others reserve, expire, publish and evict: it cannot    *)
(* find what comes or goes meanwhile, such as the reservation that a scan  *)
(* beside it is about to make, but it must find what is there throughout.  *)
(***************************************************************************)
EXTENDS CheckCache, Embedding

VARIABLES
  witnessed,  \* slots that were there since each request began
  orphaned    \* slots that ever died under a request that was filling them

searchVars == <<vars, witnessed, orphaned>>

(* The zero vector of slots that were never reserved.                      *)
VectorOf(v) == IF v = NoPrompt THEN [i \in Dims |-> 0] ELSE Encode(v)

(* The score of every prompt that has a vector with every such vector.     *)
Compared ==
  {<<x, v, ScoreOf(VectorOf(x), VectorOf(v))>> :
     x \in Prompts, v \in Prompts \cup {NoPrompt}}

Scores ==
  [x \in Prompts |-> [v \in Prompts \cup {NoPrompt} |->
     (CHOOSE c \in Compared : c[1] = x /\ c[2] = v)[3]]]

(* A scan is only made for prompts that Encode takes.                      *)
ASSUME SearchAssumption == Prompts \subseteq Encodable /\ Score = Scores

(* A scan that read the clock at curr_time has to take the slot into       *)
(* account: it is published, or reserved, stamped, and not too old.        *)
Visible(r, n) ==
  \/ control[n].state = "READY"
  \/ /\ control[n].state = "PENDING"
     /\ created_at[n] \in 1 .. local[r].curr_time
     /\ local[r].curr_time - created_at[n] <= PENDING_LIFESPAN

Scanning == {"scan", "birth", "expire", "clear", "score", "decide"}

(* The slots that stay visible, with one vector and one time of birth,     *)
(* from the first step of the scan to the decision.  (A collector whose    *)
(* eviction fails clears the time of birth of a published slot, and a scan *)
(* that saw the slot reserved before then passes it over.)                 *)
Witness ==
  witnessed' =
    [r \in Requests |->
       IF pc'[r] \notin Scanning THEN {}
       ELSE {n \in IF pc[r] = "idle" THEN Slots ELSE witnessed[r] :
               /\ Visible(r, n)'
               /\ vector'[n] = vector[n]
               /\ created_at'[n] = created_at[n]}]

Orphan == orphaned' = orphaned \cup {n \in Slots : ~Sheltered(n)'}

SearchInit ==
  /\ Init
  /\ witnessed = [r \in Requests |-> {}]
  /\ orphaned = {}

SearchNext == Next /\ Witness /\ Orphan

SearchSpec == SearchInit /\ [][SearchNext]_searchVars

(* When a request decides, the score it goes by is no worse than that of   *)
(* any slot that was there throughout its scan: no match is missed, and    *)
(* two requests reserve slots for one prompt only if neither was there     *)
(* when the other began.                                                   *)
NoMatchMissed ==
  \A r \in Requests :
    pc[r] = "decide" =>
      \A n \in witnessed[r] :
        local[r].max_score >= Score[local[r].prompt][vector[n]]

(* A slot that is being filled has a time of birth only as long as who     *)
(* retired it last, or tried to, has yet to clear it (that may be after    *)
(* others claimed it): a scan that looks at the time of birth outside that *)
(* window does not go on to the last tenant's vector.  (Once a slot died   *)
(* under its claimer two may be filling it, one after the other's stamp.)  *)
GateWindow ==
  \A n \in Slots \ orphaned : Claimed(n) => created_at[n] = 0 \/ Retiring(n)

(* The pairs of vectors for which the code for AVX computes what the       *)
(* scalar code does.                                                       *)
Agreed ==
  {c \in Compared :
     CosineSimilarity(VectorOf(c[1]), VectorOf(c[2])) =
       CosineSimilarity_Scalar(VectorOf(c[1]), VectorOf(c[2]))}

(* Whatever a scan compares, the unrolled code leaves out no term of the   *)
(* sum and adds none twice.                                                *)
UnrolledIsScalar ==
  \A r \in Requests :
    pc[r] = "score" =>
      \E c \in Agreed : c[1] = local[r].prompt /\ c[2] = vector[local[r].i]
=============================================================================
