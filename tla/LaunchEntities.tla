--------------------------- MODULE LaunchEntities ---------------------------
(***************************************************************************)
(* The vocabulary of a ROS 2 launch file.  A launch description is a       *)
(* sequence of entities; a substitution is a literal or a reference to a   *)
(* launch configuration, read when the entity holding it is visited.  The  *)
(* text of commands, remappings and yaml files is left out; a value is     *)
(* kept as the string the launch file gives it.                            *)
(***************************************************************************)
EXTENDS Sequences, TLC

Lit(v) == <<"literal", v>>
Conf(a) == <<"configuration", a>>

\* The configurations a substitution reads, and its value under conf.
Reads(s) == IF s[1] = "configuration" THEN {s[2]} ELSE {}
Value(s, conf) == IF s[1] = "configuration" THEN conf[s[2]] ELSE s[2]

\* {'a': LaunchConfiguration('a'), ...} for the names in S.
Pass(S) == [a \in S |-> Conf(a)]
NoArgs == Pass({})

Declare(arg, default) == [op |-> "declare", arg |-> arg, default |-> default]
Include(file, args) == [op |-> "include", file |-> file, args |-> args]
Scoped(body) == [op |-> "scoped", body |-> body]
Node(name, params) == [op |-> "node", name |-> name, params |-> params]
Timer(body) == [op |-> "timer", body |-> body]
OnExit(target, body) == [op |-> "onexit", target |-> target, body |-> body]

\* An entity with a condition on the configuration arg.
When(arg, value, entity) ==
  [op |-> "when", arg |-> arg, value |-> value, then |-> entity]
If(arg, entity) == When(arg, "true", entity)
Unless(arg, entity) == When(arg, "false", entity)

\* A lifecycle manager and the nodes it brings up, in order.
Manager(name, autostart, nodes) ==
  Node(name, [use_sim_time |-> Conf("use_sim_time"), autostart |-> autostart,
              node_names |-> Lit(nodes)])
=============================================================================
