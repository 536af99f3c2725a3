--------------------------- MODULE MCConfigAgent ---------------------------
(* Two configurations: the first one, with the relay off, and one that       *)
(* switches the relay on and changes the management section.                 *)
EXTENDS ConfigAgent, TLC

Section(m, z, c, r) ==
    [s \in Sections |-> CASE s = "management" -> m [] s = "zerotier" -> z
                          [] s = "controller" -> c [] OTHER -> r]

Plain == Section(1, 1, 1, "off")
Exposed == Section(2, 1, 1, "on")

KeySymmetry == Permutations(Keys)

MCConfigs == {Plain, Exposed}

\* Once torn, no guard and no invariant but TypeOK, which is proved, depends on
\* the generated files, the containers and the firewall.
View == <<file, hist, cache, opVars, clientVars, ghostVars,
          IF torn = "yes" THEN <<>> ELSE <<gen, hostVars>>>>
=============================================================================
