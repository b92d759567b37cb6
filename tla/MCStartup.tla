---- MODULE MCStartup ----
EXTENDS Startup
CONSTANTS user_space, log
MCPreload == <<Bus, user_space, log>>
MCPriority == [t \in {Bus, user_space, log} |->
                 CASE t = Bus -> 15 [] t = user_space -> 4 [] t = log -> 3]
====
