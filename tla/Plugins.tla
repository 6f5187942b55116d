------------------------------ MODULE Plugins ------------------------------
(* The plugins directory as discovery reads it (core/plugins.py) and as the  *)
(* command of scripts/plugins.py changes it, beside submodules that come and *)
(* go.  A label is the sequence of its words and underscores.                *)
EXTENDS Naturals, SequencesExt

CONSTANTS
    Dir,             \* the directories a plugin may be in; `new` uses the label's own
    Label,           \* what a plugin may be called
    DirOf,           \* [Label -> Dir]
    Reserved,        \* RESERVED_LABELS
    ReservedRoutes,  \* RESERVED_PREFIXES
    MaxLength,       \* MAX_NAME_LENGTH, in words
    Nothing          \* no plugin, no link

VARIABLES
    plugin,    \* [Dir -> a manifest and what is beside it, or Nothing]
    pages,     \* the first URL segments the frontend serves itself
    link,      \* [routes -> Dir or Nothing]: the frontend halves linked
    generated, \* registry.generated.ts: the set of (route, label) it imports
    making     \* the directory `plugins.py new` has just filled, or Nothing
files == <<plugin, pages, link, generated, making>>

Route(label) == [i \in DOMAIN label |-> IF label[i] = "_" THEN "-" ELSE label[i]]
Table(label) == label \o <<"_">>
Routes       == {Route(l) : l \in Label}
Present(ps)  == {d \in Dir : ps[d] # Nothing}

(* _load() and _prefixes(): every prefix derives from the label, so what is  *)
(* left to check of a manifest is its own fields and the reserved names.     *)
Sound(m) ==
    /\ m.shaped
    /\ m.label \notin Reserved
    /\ Route(m.label) \notin ReservedRoutes

\* Mutant: table prefixes are compared like routes.
MutCollide(m, n) == m.label = n.label \/ Route(m.label) = Route(n.label)

(* _check_collisions(): tables share one namespace, so one prefix must not   *)
(* begin another.                                                            *)
Collide(m, n) ==
    \/ m.label = n.label
    \/ Route(m.label) = Route(n.label)
    \/ IsPrefix(Table(m.label), Table(n.label))
    \/ IsPrefix(Table(n.label), Table(m.label))

(* discover() raises unless this holds of the whole directory.               *)
Discovered(ps) ==
    /\ \A d \in Present(ps) : Sound(ps[d])
    /\ \A d, e \in Present(ps) : d # e => ~Collide(ps[d], ps[e])

(* importable(): an absent package is skipped, a broken one stops the boot.  *)
Boots(ps)     == Discovered(ps) /\ \A d \in Present(ps) : ps[d].package # "broken"
Installed(ps) == {d \in Present(ps) : ps[d].package = "found"}

-----------------------------------------------------------------------------
Init ==
    /\ plugin = [d \in Dir |-> Nothing]
    /\ pages \in SUBSET Routes
    /\ link = [r \in Routes |-> Nothing]
    /\ generated = {}
    /\ making = Nothing

(* plugins.py new *)

ValidName(label) ==
    Len(label) <= MaxLength /\ label \notin Reserved /\ Route(label) \notin ReservedRoutes

Template(label) ==
    [label |-> label, shaped |-> TRUE, package |-> "found", frontend |-> TRUE]

(* Rendered beside the directory, accepted alone, then moved into place.     *)
NewMoves(label) ==
    /\ making = Nothing
    /\ ValidName(label) /\ Route(label) \notin pages
    /\ plugin[DirOf[label]] = Nothing
    /\ plugin' = [plugin EXCEPT ![DirOf[label]] = Template(label)]
    /\ making' = DirOf[label]
    /\ UNCHANGED <<pages, link, generated>>

(* The whole set is discovered once more; if it is refused, the new plugin   *)
(* is removed again.                                                         *)
NewEnds ==
    /\ making # Nothing
    /\ plugin' = IF Discovered(plugin) THEN plugin ELSE [plugin EXCEPT ![making] = Nothing]
    /\ making' = Nothing
    /\ UNCHANGED <<pages, link, generated>>

NewDies == making # Nothing /\ making' = Nothing /\ UNCHANGED <<plugin, pages, link, generated>>

(* plugins.py link and registry *)

Find(label) == {d \in Present(plugin) : plugin[d].label = label}

LinkStatus(links, d) ==
    IF ~plugin[d].frontend THEN "no frontend"
    ELSE IF links[Route(plugin[d].label)] = d THEN "linked"
    ELSE IF links[Route(plugin[d].label)] # Nothing THEN "wrong link" ELSE "not linked"

LinkedFrontends(links) ==
    {<<Route(plugin[d].label), plugin[d].label>> :
        d \in {d \in Present(plugin) : LinkStatus(links, d) = "linked"}}

(* cmd_registry(): nothing is written while an entry would be shadowed.      *)
Shadowed(entries) == \E entry \in entries : entry[1] \in pages
WriteRegistry(links) ==
    generated' = IF Shadowed(LinkedFrontends(links)) THEN generated ELSE LinkedFrontends(links)

Registry ==
    /\ making = Nothing /\ Discovered(plugin)
    /\ WriteRegistry(link)
    /\ UNCHANGED <<plugin, pages, link, making>>

(* cmd_link(): a link to somewhere else is left for its owner to remove; the *)
(* link stays when the registry is refused.                                  *)
Link(label) ==
    /\ making = Nothing /\ Discovered(plugin)
    /\ Route(label) \notin pages
    /\ \E d \in Find(label) :
          /\ plugin[d].frontend
          /\ link[Route(label)] \in {Nothing, d}
          /\ link' = [link EXCEPT ![Route(label)] = d]
          /\ WriteRegistry(link')
    /\ UNCHANGED <<plugin, pages, making>>

(* What happens beside the commands *)

Submodule(d, m) ==
    /\ plugin[d] = Nothing
    /\ plugin' = [plugin EXCEPT ![d] = m]
    /\ UNCHANGED <<pages, link, generated, making>>

Removed(d) ==
    /\ plugin[d] # Nothing /\ making # d
    /\ plugin' = [plugin EXCEPT ![d] = Nothing]
    /\ UNCHANGED <<pages, link, generated, making>>

PageAdded(route) ==
    /\ pages' = pages \cup {route}
    /\ UNCHANGED <<plugin, link, generated, making>>

Next(manifests) ==
    \/ \E l \in Label : NewMoves(l) \/ Link(l) \/ PageAdded(Route(l))
    \/ NewEnds \/ NewDies \/ Registry
    \/ \E d \in Dir : Removed(d) \/ \E m \in manifests : Submodule(d, m)

-----------------------------------------------------------------------------
(* While the plugins boot, no table, route or label could be two plugins': a *)
(* table is a prefix and the plugin's own word after it.                     *)
TablesApart ==
    Boots(plugin) =>
        \A d, e \in Installed(plugin) : d # e =>
            \A w1, w2 \in Label : Table(plugin[d].label) \o w1 # Table(plugin[e].label) \o w2

=============================================================================
