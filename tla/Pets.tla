-------------------------------- MODULE Pets --------------------------------
(* The desktop pets (pets/service.py, pets/smart.py, interface/routes/pets.py): *)
(* packages that users upload and share, the pets they adopt from them, the     *)
(* names of a pet's actions, and the bubbles and chats it speaks in.  A request *)
(* commits when its response is over.  A request is one action, unless another  *)
(* one can get between what it reads and what it writes: an upload, a deletion, *)
(* an adoption, an activation, a bubble and a chat begin and end.               *)
EXTENDS Naturals, FiniteSets
CONSTANTS PetUser, PetAdmin,    \* the users, and those of them who administer
          Home,                 \* Home[u]: the tenant of a user
          PetPkg, PetAgent,     \* ids of packages, agents a pet may speak for
          PetAsk,               \* the requests that may overlap
          PetName,              \* the names that users type
          RowMaps,              \* the mappings that users send
          RowCount,             \* the rows of a sprite sheet
          MaxPackages,          \* MAX_PACKAGES_PER_USER
          BubbleLimit,          \* the bubbles of a pet in a day
          MaxPetAsks            \* bound: the requests of a behaviour
ASSUME PetsAssumption == /\ PetAdmin \subseteq PetUser /\ RowCount \in 1..8
                         /\ {MaxPackages, BubbleLimit, MaxPetAsks} \subseteq Nat

VARIABLES pkg,     \* the packages there are: a row for each id
          pet,     \* the pets there are: a row for each user and package
          born,    \* ids given so far
          sheet,   \* the packages whose objects the storage holds
          open,    \* which user may use which agent
          ask,     \* the requests under way
          plays,   \* the last action of a pet that a bubble and a tool played
          asks,    \* requests so far
          crowd,   \* what was asked for twice at the same time, or anew
          torn     \* packages whose deletion did not commit
pvars == <<pkg, pet, born, sheet, open, ask, plays, asks, crowd, torn>>

NoPetAgent == "no agent"
NoState    == "no state"
NoAsk      == [op |-> "none"]
SheetRows       == 0 .. (RowCount - 1)
\* Two of the names of a state, and the rows of a standard sheet: the first row
\* of it bears the name of the idle state.
RowStates  == {"idle", "think"}
CodexName(row) == CASE row = 0 -> "idle" [] row = 1 -> "right" [] OTHER -> "other"
RowNames   == PetName \cup RowStates \cup {"right", "other"}
Visibility == {"private", "tenant", "public", "official"}

\* The maps that validate_row_mapping accepts, and those of names or states that
\* set_package_actions and set_pet_actions accept: an alias is given once.
Partial(S, T) == UNION {[A -> T] : A \in SUBSET S}
StateMaps == Partial(RowStates, SheetRows)
Mappings == {m \in StateMaps : "idle" \in DOMAIN m}
ASSUME RowMapsAssumption == RowMaps \subseteq Mappings
Namings  == {f \in Partial(SheetRows, PetName) : \A a, b \in DOMAIN f : f[a] = f[b] => a = b}

Seen(u, p) == /\ p \in DOMAIN pkg /\ ~pkg[p].down
              /\ \/ pkg[p].vis \in {"public", "official"} \/ pkg[p].owner = u
                 \/ pkg[p].vis = "tenant" /\ Home[pkg[p].owner] = Home[u]
Rules(u, p) == p \in DOMAIN pkg /\ (pkg[p].owner = u \/ u \in PetAdmin)
Packages(u) == {p \in DOMAIN pkg : pkg[p].owner = u}
Less(f, S)  == [x \in DOMAIN f \ S |-> f[x]]
\* The one function before the other, and a function with one more value.
Joined(f, g)  == [x \in DOMAIN f \cup DOMAIN g |-> IF x \in DOMAIN f THEN f[x] ELSE g[x]]
Plus(f, x, y) == Joined([z \in {x} |-> y], f)

\* The state a row shows, the first of its states in the order of the column.
StateOf(m, row) == LET S == {s \in DOMAIN m : m[s] = row}
                   IN  IF S = {} THEN NoState ELSE IF "idle" \in S THEN "idle" ELSE "think"
Catalogue(m) == [row \in SheetRows |-> LET s == StateOf(m, row) IN
                   [name |-> IF s = NoState THEN CodexName(row) ELSE s, state |-> s]]
\* What a pet's rows are called: by its user, the uploader, the state, the sheet.
NameOf(x, row) ==
  LET p == pkg[x[2]]
      s == IF row \in DOMAIN p.acts /\ p.acts[row].state # NoState
           THEN p.acts[row].state ELSE StateOf(p.map, row)
  IN  IF row \in DOMAIN pet[x].alias THEN pet[x].alias[row]
      ELSE IF row \in DOMAIN p.acts THEN p.acts[row].name
      ELSE IF s # NoState THEN s ELSE CodexName(row)
NamesOf(x) == [row \in SheetRows |-> NameOf(x, row)]
\* The row that a user's pet is said to show a state in: the user's choice before
\* the package's before the row of a sheet of nine.
StandardRow == [s \in RowStates |-> IF s = "idle" THEN 0 ELSE 8]
Shows(x) == Joined(pet[x].states, Joined(pkg[x[2]].map, StandardRow))

Speaks(x) == LET a == IF pet[x].agent # NoPetAgent THEN pet[x].agent ELSE pkg[x[2]].deflt
             IN  IF <<x[1], a>> \in open THEN a ELSE NoPetAgent

\* load_agent: the user may choose the agent.
MayBind(u, a) == a = NoPetAgent \/ <<u, a>> \in open

NewPet == [active |-> FALSE, agent |-> NoPetAgent, said |-> 0, chats |-> 0,
           alias |-> <<>>, states |-> <<>>]
NewPackage(u, v, m) == [owner |-> u, vis |-> v, down |-> FALSE, deflt |-> NoPetAgent,
                        map |-> m, acts |-> Catalogue(m), moved |-> FALSE]
NotPlayed == [name |-> "none"]

PInit == /\ pkg = <<>> /\ pet = <<>> /\ born = {} /\ sheet = {} /\ open = PetUser \X PetAgent
         /\ ask = [r \in PetAsk |-> NoAsk] /\ plays = [by \in {"bubble", "tool"} |-> NotPlayed]
         /\ asks = 0 /\ crowd = {} /\ torn = {}

-----------------------------------------------------------------------------
\* Requests that begin and end.
Asked(r, a) ==
  /\ ask[r] = NoAsk /\ asks < MaxPetAsks /\ asks' = asks + 1
  /\ ask' = [ask EXCEPT ![r] = a]
  /\ crowd' = IF \E s \in PetAsk : /\ ask[s].op = a.op /\ ask[s].user = a.user
                                   /\ \/ a.op = "upload"
                                      \/ a.op \in {"bubble", "chat"} /\ ask[s].pkg = a.pkg
               THEN crowd \cup {<<a.op, a.user, a.pkg>>} ELSE crowd
Closed(r) == ask' = [ask EXCEPT ![r] = NoAsk]
\* A deletion that has not committed holds the lock of the row.
Deleting(p) == \E r \in PetAsk : ask[r].op = "delete" /\ ask[r].pkg = p

\* The objects are stored before the rows are committed.
CreatePackage(r, u, p, v, m) ==
  /\ p \notin born
  /\ v = "official" => u \in PetAdmin
  /\ Cardinality(Packages(u)) < MaxPackages \/ u \in PetAdmin
  /\ Asked(r, [op |-> "upload", user |-> u, pkg |-> p, vis |-> v, map |-> m])
  /\ born' = born \cup {p} /\ sheet' = sheet \cup {p}
  /\ UNCHANGED <<pkg, pet, open, plays, torn>>
PackageCreated(r) == /\ ask[r].op = "upload" /\ Closed(r)
                     /\ LET a == ask[r] IN
                        /\ pkg' = Plus(pkg, a.pkg, NewPackage(a.user, a.vis, a.map))
                        /\ pet' = Plus(pet, <<a.user, a.pkg>>, NewPet)
                     /\ UNCHANGED <<born, sheet, open, plays, asks, crowd, torn>>

\* The objects are removed before the row's deletion is committed; the pets of
\* the package stay.
DeletePackage(r, u, p) == /\ Rules(u, p) /\ ~Deleting(p)
                          /\ Asked(r, [op |-> "delete", user |-> u, pkg |-> p])
                          /\ sheet' = sheet \ {p}
                          /\ UNCHANGED <<pkg, pet, born, open, plays, torn>>
PackageDeleted(r) == /\ ask[r].op = "delete" /\ Closed(r)
                     /\ pkg' = Less(pkg, {ask[r].pkg})
                     /\ UNCHANGED <<pet, born, sheet, open, plays, asks, crowd, torn>>

\* A request whose answer or commit fails leaves what it did outside the database.
Failed(r) == /\ ask[r] # NoAsk /\ Closed(r)
             /\ torn' = IF ask[r].op = "delete" THEN torn \cup {ask[r].pkg} ELSE torn
             /\ UNCHANGED <<pkg, pet, born, sheet, open, plays, asks, crowd>>

Adopt(r, u, p) == /\ Seen(u, p) /\ <<u, p>> \notin DOMAIN pet
                  /\ Asked(r, [op |-> "adopt", user |-> u, pkg |-> p])
                  /\ UNCHANGED <<pkg, pet, born, sheet, open, plays, torn>>
\* The row is unique, and the route looks at the package once more.
Adopted(r) == /\ ask[r].op = "adopt" /\ Closed(r)
              /\ LET a == ask[r] IN
                 pet' = IF <<a.user, a.pkg>> \notin DOMAIN pet /\ Seen(a.user, a.pkg)
                        THEN Plus(pet, <<a.user, a.pkg>>, NewPet) ELSE pet
              /\ UNCHANGED <<pkg, born, sheet, open, plays, asks, crowd, torn>>

\* The update of all pets sees the rows of its start; the index of active pets,
\* the pet's own row and the package decide at its end.
Activate(r, u, p) == /\ <<u, p>> \in DOMAIN pet
                     /\ Asked(r, [op |-> "activate", user |-> u, pkg |-> p, rows |-> {x \in DOMAIN pet : x[1] = u}])
                     /\ UNCHANGED <<pkg, pet, born, sheet, open, plays, torn>>
Activated(r) ==
  /\ ask[r].op = "activate" /\ Closed(r)
  /\ LET a == ask[r]  own == <<a.user, a.pkg>>
         fine == /\ own \in a.rows /\ a.pkg \in DOMAIN pkg
                 /\ \A x \in DOMAIN pet \ a.rows : x[1] = a.user => ~pet[x].active
     IN  pet' = IF fine THEN [x \in DOMAIN pet |-> IF x \in a.rows
                                THEN [pet[x] EXCEPT !.active = (x = own)] ELSE pet[x]]
                ELSE pet
  /\ UNCHANGED <<pkg, born, sheet, open, plays, asks, crowd, torn>>

\* The quota is read before the model streams; what was shown counts once the
\* answer is whole.  The bubble picks the last row of a name, the tool the first.
HasQuota(x) == pet[x].said < BubbleLimit
Bubble(r, u, p) == /\ <<u, p>> \in DOMAIN pet /\ p \in DOMAIN pkg
                   /\ Speaks(<<u, p>>) # NoPetAgent /\ HasQuota(<<u, p>>)
                   /\ Asked(r, [op |-> "bubble", user |-> u, pkg |-> p, rows |-> {<<u, p>>}, names |-> NamesOf(<<u, p>>)])
                   /\ UNCHANGED <<pkg, pet, born, sheet, open, plays, torn>>
Told(r, name) ==
  /\ ask[r].op = "bubble" /\ Closed(r)
  /\ LET a == ask[r]  named == {row \in SheetRows : a.names[row] = name} IN
     /\ pet' = [x \in DOMAIN pet |-> IF x \in a.rows THEN [pet[x] EXCEPT !.said = @ + 1] ELSE pet[x]]
     /\ plays' = IF named = {} THEN plays ELSE [plays EXCEPT !["bubble"] =
          [name |-> name, names |-> a.names, row |-> CHOOSE row \in named : \A n \in named : n <= row]]
  /\ UNCHANGED <<pkg, born, sheet, open, asks, crowd, torn>>
PetAction(x, name) ==
  /\ x \in DOMAIN pet /\ x[2] \in DOMAIN pkg /\ pet[x].chats > 0
  /\ LET names == NamesOf(x)  named == {row \in SheetRows : names[row] = name} IN
     /\ named # {}
     /\ plays' = [plays EXCEPT !["tool"] =
          [name |-> name, names |-> names, row |-> CHOOSE row \in named : \A n \in named : row <= n]]
  /\ UNCHANGED <<pkg, pet, born, sheet, open, ask, asks, crowd, torn>>

\* A chat goes on in the pet's latest session; without one, or when a new one is
\* asked for, a session is created.
Chat(r, u, p, new) == /\ <<u, p>> \in DOMAIN pet /\ p \in DOMAIN pkg
                      /\ Speaks(<<u, p>>) # NoPetAgent
                      /\ new \/ pet[<<u, p>>].chats = 0
                      /\ Asked(r, [op |-> "chat", user |-> u, pkg |-> p, rows |-> {<<u, p>>}, new |-> new])
                      /\ UNCHANGED <<pkg, pet, born, sheet, open, plays, torn>>
Chatting(r) == /\ ask[r].op = "chat" /\ Closed(r)
               /\ LET a == ask[r]  x == <<a.user, a.pkg>> IN
                  /\ pet' = [y \in DOMAIN pet |-> IF y \in a.rows
                               THEN [pet[y] EXCEPT !.chats = @ + 1] ELSE pet[y]]
                  /\ crowd' = IF a.new THEN crowd \cup {<<"new", a.user, a.pkg>>} ELSE crowd
               /\ UNCHANGED <<pkg, born, sheet, open, plays, asks, torn>>

-----------------------------------------------------------------------------
\* Requests of one step.
Once == asks < MaxPetAsks /\ asks' = asks + 1 /\ UNCHANGED <<born, sheet, open, plays, crowd, torn>>
SetPackage(p, row) == pkg' = [pkg EXCEPT ![p] = row] /\ UNCHANGED <<pet, ask>> /\ Once
SetPet(x, row) == pet' = [pet EXCEPT ![x] = row] /\ UNCHANGED <<pkg, ask>> /\ Once

SetVisibility(u, p, v) == /\ v # "official" /\ Rules(u, p) /\ ~Deleting(p)
                          /\ SetPackage(p, [pkg[p] EXCEPT !.vis = v])
AdminSetVisibility(p, v) == /\ p \in DOMAIN pkg /\ ~Deleting(p)
                            /\ SetPackage(p, [pkg[p] EXCEPT !.vis = v])
AdminTakedown(p, down) == /\ p \in DOMAIN pkg /\ ~Deleting(p)
                          /\ SetPackage(p, [pkg[p] EXCEPT !.down = down])
SetDefaultAgent(u, p, a) == /\ Rules(u, p) /\ ~Deleting(p) /\ MayBind(u, a)
                            /\ SetPackage(p, [pkg[p] EXCEPT !.deflt = a])
\* The names of the actions stay what they were made of.
SetRowMapping(u, p, m) == /\ Rules(u, p) /\ ~Deleting(p)
                          /\ SetPackage(p, [pkg[p] EXCEPT !.map = m, !.moved = TRUE])
SetPackageActions(u, p, f) ==
  /\ Rules(u, p) /\ ~Deleting(p)
  /\ SetPackage(p, [pkg[p] EXCEPT !.acts = [row \in DOMAIN f |->
       [name |-> f[row], state |-> IF row \in DOMAIN @ THEN @[row].state ELSE NoState]]])

\* The route needs the package of the pet, and rolls back without it.
SetAgent(u, p, a) == /\ <<u, p>> \in DOMAIN pet /\ p \in DOMAIN pkg
                     /\ MayBind(u, a)
                     /\ SetPet(<<u, p>>, [pet[<<u, p>>] EXCEPT !.agent = a])
\* A request that leaves the states alone is one for the states there are.
SetPetActions(u, p, f, g) == /\ <<u, p>> \in DOMAIN pet /\ p \in DOMAIN pkg
                             /\ SetPet(<<u, p>>, [pet[<<u, p>>] EXCEPT !.alias = f, !.states = g])
DeactivateAll(u) == /\ pet' = [x \in DOMAIN pet |-> IF x[1] # u THEN pet[x]
                                                    ELSE [pet[x] EXCEPT !.active = FALSE]]
                    /\ \E x \in DOMAIN pet : x[1] = u /\ pet[x].active
                    /\ UNCHANGED <<pkg, ask>> /\ Once
\* The requests under way know the row by its id, and no longer find it.
RemovePet(u, p) == /\ <<u, p>> \in DOMAIN pet /\ pet' = Less(pet, {<<u, p>>})
                   /\ ask' = [r \in PetAsk |-> IF ask[r].op \in {"activate", "bubble", "chat"}
                                THEN [ask[r] EXCEPT !.rows = @ \ {<<u, p>>}] ELSE ask[r]]
                   /\ UNCHANGED pkg /\ Once
\* An administrator or the agent's owner changes who may use an agent.
Share(u, a) == /\ asks < MaxPetAsks /\ asks' = asks + 1
               /\ open' = IF <<u, a>> \in open THEN open \ {<<u, a>>} ELSE open \cup {<<u, a>>}
               /\ UNCHANGED <<pkg, pet, born, sheet, ask, plays, crowd, torn>>

-----------------------------------------------------------------------------
Finished(r) == \/ PackageCreated(r) \/ PackageDeleted(r) \/ Failed(r) \/ Adopted(r)
               \/ Activated(r) \/ Chatting(r) \/ \E name \in RowNames : Told(r, name)
PetNext ==
  \/ \E r \in PetAsk, u \in PetUser, p \in PetPkg :
       \/ \E v \in Visibility, m \in RowMaps : CreatePackage(r, u, p, v, m)
       \/ DeletePackage(r, u, p) \/ Adopt(r, u, p) \/ Activate(r, u, p) \/ Bubble(r, u, p)
       \/ \E new \in BOOLEAN : Chat(r, u, p, new)
  \/ \E r \in PetAsk : Finished(r)
  \/ \E u \in PetUser, p \in PetPkg, v \in Visibility : SetVisibility(u, p, v)
  \/ \E p \in PetPkg, v \in Visibility : AdminSetVisibility(p, v)
  \/ \E p \in PetPkg, down \in BOOLEAN : AdminTakedown(p, down)
  \/ \E u \in PetUser, p \in PetPkg, a \in PetAgent \cup {NoPetAgent} :
       SetDefaultAgent(u, p, a) \/ SetAgent(u, p, a)
  \/ \E u \in PetUser : DeactivateAll(u)
  \/ \E u \in PetUser, p \in PetPkg : RemovePet(u, p)
  \/ \E u \in PetUser, a \in PetAgent : Share(u, a)
\* The names of one pet's actions change, and its actions are played.
NameNext ==
  \/ \E u \in PetUser, p \in PetPkg :
       \/ \E m \in RowMaps : SetRowMapping(u, p, m)
       \/ \E f \in Namings : SetPackageActions(u, p, f)
       \/ \E f \in Namings, g \in StateMaps : SetPetActions(u, p, f, g)
       \/ \E r \in PetAsk : Bubble(r, u, p)
       \/ \E name \in RowNames : PetAction(<<u, p>>, name)
  \/ \E r \in PetAsk, name \in RowNames : Told(r, name)
PetsSpec == PInit /\ [][PetNext \/ NameNext]_pvars

-----------------------------------------------------------------------------
(* A row of the table and its objects: a package has its objects, unless its    *)
(* deletion is under way or did not commit; the rows that its owner and the    *)
(* users of its pets chose are rows of the sheet, and a pet has one for idle.   *)
PetsTyped ==
  /\ \A p \in DOMAIN pkg :
       /\ p \in born /\ (p \in sheet \/ Deleting(p) \/ p \in torn)
       /\ pkg[p].map \in Mappings /\ DOMAIN pkg[p].acts \subseteq SheetRows
  /\ \A x \in DOMAIN pet : /\ x[2] \in born /\ pet[x].alias \in Namings /\ pet[x].states \in StateMaps
                           /\ x[2] \in DOMAIN pkg => Shows(x)["idle"] \in SheetRows

(* A user has one active pet, whatever requests overlap (the index of active    *)
(* pets and the order of an activation's updates).                              *)
OneActivePet == \A x, y \in DOMAIN pet :
                  x[1] = y[1] /\ pet[x].active /\ pet[y].active => x = y

(* The limits that a request reads before it writes - the packages of a user,   *)
(* the bubbles of a pet, its one chat - are exceeded only where two requests    *)
(* overlapped, or a new chat was asked for.                                     *)
LimitsKept ==
  /\ \A u \in PetUser \ PetAdmin : Cardinality(Packages(u)) > MaxPackages =>
       \E p \in born : <<"upload", u, p>> \in crowd
  /\ \A x \in DOMAIN pet :
       /\ pet[x].said > BubbleLimit => <<"bubble", x[1], x[2]>> \in crowd
       /\ pet[x].chats > 1 => {<<"chat", x[1], x[2]>>, <<"new", x[1], x[2]>>} \cap crowd # {}

(* An action's state is the one its row shows, until the mapping of the package *)
(* changes; and where the names of a pet's actions are distinct, a bubble and a *)
(* chat that play one name play the same row.                                   *)
NamesMean ==
  /\ \A p \in DOMAIN pkg : ~pkg[p].moved =>
       \A row \in DOMAIN pkg[p].acts : pkg[p].acts[row].state \in {NoState, StateOf(pkg[p].map, row)}
  /\ LET b == plays["bubble"]  t == plays["tool"] IN
     /\ b # NotPlayed /\ t # NotPlayed /\ b.name = t.name /\ b.names = t.names
     /\ \A m, n \in SheetRows : b.names[m] = b.names[n] => m = n
     => b.row = t.row
PetsHold == PetsTyped /\ OneActivePet /\ LimitsKept /\ NamesMean

-----------------------------------------------------------------------------
(* What the code does not keep.                                                *)

(* A user keeps the pet whose package its owner deletes (docs/16, 4.6).        *)
AdoptedStays == \A x \in DOMAIN pet : x[2] \in DOMAIN pkg
(* A pet whose own agent its user may no longer use speaks for the package's.  *)
FallsBack == \A x \in DOMAIN pet :
  /\ x[2] \in DOMAIN pkg /\ pet[x].agent # NoPetAgent
  /\ <<x[1], pet[x].agent>> \notin open /\ <<x[1], pkg[x[2]].deflt>> \in open
  => Speaks(x) # NoPetAgent
(* A state without a row shows the idle row (docs/16, 04, 5): the answer names  *)
(* the row of a sheet of nine, which the sheet need not have.                   *)
RowsOfSheet == \A x \in DOMAIN pet : x[2] \in DOMAIN pkg =>
  \A s \in RowStates : Shows(x)[s] \in SheetRows
(* The names of a pet's actions are distinct, also those that the upload made. *)
DistinctNames == \A x \in DOMAIN pet : x[2] \in DOMAIN pkg =>
  \A m, n \in SheetRows : NameOf(x, m) = NameOf(x, n) => m = n
(* A user uploads at most so many packages, a pet speaks so often in a day.    *)
WithinLimits == /\ \A u \in PetUser \ PetAdmin : Cardinality(Packages(u)) <= MaxPackages
                /\ \A x \in DOMAIN pet : pet[x].said <= BubbleLimit
(* A package that was deleted or not saved leaves no objects, and a package     *)
(* there is has its objects.                                                    *)
SheetsMatch == (\A r \in PetAsk : ask[r] = NoAsk) => sheet = DOMAIN pkg
=============================================================================
