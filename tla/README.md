# NetworkManager: a formal model

This directory specifies the NetworkManager of this repository in TLA+: a
daemon that configures network interfaces (statically or over DHCP), chooses
the interface that leads to the Internet by pinging over each of them, splits
traffic by destination, and is reconfigured through a small web server while it
runs. The modules are checked with TLC on small instances and their safety
invariants are proved with TLAPS for every value of the constants.

Paths below are relative to the repository's root (`src/` in this tree), so
`src/DHCPClient/src/DHCPClient.cpp` is `src/src/DHCPClient/...` in PROJECT.json.

## 1. The system

`main` (`src/NetworkManager/src/main.cpp`) builds a `NetworkFactory`, loads the
plugins named in an INI file with `dlopen`, configures and starts each, hands
them to the web configurator, starts it, waits for a signal and returns. The
destructors of its locals do whatever is undone at the end. The plugins are the
switcher, the routing specializer and a configurator of the interface
controllers; a web client may configure each of them again at any moment.

| part | state it keeps | operations | threads in it |
|---|---|---|---|
| `DHCPClient` | `running`, its `std::thread`, three mutexes, two condition variables, the last offer, `dns_servers` | `start`, `stop`, destructor, `run` | the callers and one thread of its own |
| `EthernetController` | an `Interface`, a `DHCPClient`, a DHCP server configuration | `setStatic`, `useDHCP`, `setDHCPServer`, `configureInterface` | the callers and the client's thread, through the callback |
| `Interface` | ip, mask, gateway, DNS servers, callbacks | `setIP`, `setGW`, `setDNS`, `enable` | anybody; no lock |
| `PingInternetSwitcher` | list of interfaces, current interface, MASQUERADE chain, DNS configuration | `configure`, `exec`, destructor, `Run` | main, web clients, one thread of its own |
| `RoutingSpecializer` | map from interface to `TrafficSpecialization` | `configure`, `getConfiguration` | main, web clients; no lock |
| `TrafficSpecialization` | routing rule, ipset, route, two chains with their rules, a mark | constructor, destructor, `addIP`, `clearIPs` | those of its owner |
| `Route`, `RouteRule`, `IPSet`, `XTables` | one kernel object each, for as long as the C++ object lives | constructor, destructor, `addRule`, `addIP` | those of their owners |
| `NetworkFactory` | registries of weak pointers to all of these | `addRoute`, `getInterface`, `getIPSet`, ... | all |
| `DNSMasqController`, `DNSMasqConfiguration`, `DHCPServer` | configuration files of dnsmasq and the lines of each, a registry of weak pointers by name | `createConfiguration`, `addConfiguration`, `writeConfiguration`, `reloadConfiguration`, destructors | main, web clients, the switcher's thread |
| `WebPluginConfigurator` | a listening socket, the plugins | `start`, `stop`, destructor, one request per connection | an accepting thread, a detached thread per client |
| `main` | all objects, as locals | start-up, wait for a signal, destruction | one |
| `INIFileConfigurator` | the name of its file | `configure`, one controller call after the other | main, web clients; no lock |
| dhcpresolver (C) | a DHCP exchange, a locked pid file, what it knows of its link | discover, request, print, give up | a process of its own |

How they interact: callbacks (the DHCP client's thread into the controller),
shared ownership (`shared_ptr`s that keep a kernel object, `weak_ptr`s in the
registries), condition variables, the kernel's tables (which outlive the
process), and files that dnsmasq reads when it is told to.

What is hard: every object is entered by several threads and most take no lock;
condition variables are notified without their mutex; a destructor has to
silence a thread that calls into the object's owner; kernel state must follow
object lifetime through exceptions in the middle of a constructor; a killed
process leaves kernel state behind, nothing but `clear.sh` removes it, and
`nm.service` says nothing of restarts. `estimate.txt` ends with the open
defects the authors know of: "Logger need to be synchronized" and "Graceful
termination need to be fixed now it's not graceful".

What makes each part correct:

- DHCP client: no thread without somebody who will join it, no delivery after
  `stop()` returned, no caller stuck under the mutex, renewal for ever.
- Controller: a static configuration is not overwritten by a DHCP answer that
  was in flight; address, gateway and name servers are of one configuration.
- Switcher: every kernel route has its owner, the destructor leaves nothing
  behind but what a command failed to delete, priorities are those of one list,
  the best source ends up as default.
- Routing specializer: a live object is complete in the kernel, nobody holds a
  destroyed one, a packet has one mark, and nothing stays in the kernel without an
  owner but what a destructor's own command failed to delete.
- main and the web configurator: no plugin is destroyed while a client's thread
  runs it, libraries outlive the plugins, whoever waits is answered, main returns.
- dhcpresolver: one process per interface, what it reports is what it requested,
  it ends once the link stays up (`DHCPClient::stop` waits for that).
- `DNSMasqController`, `DHCPServer`: dnsmasq serves the range that an interface
  was given last; every file has its object or was left by a process that died.
- `INIFileConfigurator`: a file that was applied without another beside it is in
  force, whatever earlier ones left half done.

The hazards behind these properties are listed in PROJECT.json, each at its line.

## 2. Modules

| module | models | checked by | proved in |
|---|---|---|---|
| `DHCPService` | what a DHCP client promises its owner (abstract) | | |
| `SharedObjects` | what a `shared_ptr` promises: objects are made once, kept while somebody refers to them, destroyed once (abstract) | | |
| `DHCPClient` | the client: thread, mutex, wait sets, lifetime | `client` | `DHCPClientProofs` |
| `EthernetController` | extends `DHCPClient` with the controller and the interface both threads write | `controller` | `EthernetControllerProofs` |
| `PingInternetSwitcher` | the switcher's thread and methods, the kernel's main table, the networks | `switcher_*` | `PingInternetSwitcherProofs` |
| `RoutingSpecializer` | `configure()` by several clients, the objects it creates and drops, the kernel's marking state | `routing_*` | `RoutingSpecializerProofs` |
| `NetworkManager` | main, the accepting thread, the clients' threads, plugins and their libraries | `manager` | `NetworkManagerProofs` |
| `DHCPResolver` | dhcpresolver processes on one interface, the pid file, the link, DHCP servers | `resolver*` | `DHCPResolverProofs` |
| `DHCPServer` | `setDHCPServer` down to the files in `/etc/dnsmasq.d` and to what dnsmasq has read, over several lives of the process | `configurator` | `INIFileConfiguratorProofs` |
| `INIFileConfigurator` | extends `DHCPServer` with `configure()` by several threads, section by section, and with the scan for interfaces | `configurator` | `INIFileConfiguratorProofs` |
| `XTables` | `Table`, `Chain` and `ChainRule`: sharing of chains, `addRule` step by step, the counter of ids | `xtables` | `XTablesProofs` |

`SharedObjects` is implemented three times, each with its own mapping of who
refers to what: by the `TrafficSpecialization`s of `RoutingSpecializer`
(`ImplementsPointers`: maps, clients and constructors; the destructor is a step
of its own, so an object may be `dying`), by the plugins of `NetworkManager`
(`SharesPlugins`, with `alive` the objects that are held), and by the
configurations of `DHCPServer` (`SharesConfigurations`, where `made` is the
registry of weak pointers, and `Exit` the end of the process).

`EthernetController` is composed with `DHCPClient` by EXTENDS: the controller's
steps are the client's steps, with the callback opened up. `INIFileConfigurator`
is composed with `DHCPServer` in the same way. `DHCPClient` takes
from `DHCPResolver` that a resolver exits (`ResolverExits`, with or without an
offer); `RoutingSpecializer` and `PingInternetSwitcher` take from `XTables` that
a rule stays until its chain dies unless an increment of the ids is lost
(`RulesKept`); `NetworkManager` takes from the plugins' modules that their methods
return or throw. The configurations without an `MC*` module use the component's
module itself. Each `MC*` module adds the symmetry or the lists that its
component's constants need. Operators
whose comment starts with "Mutant:" are no part of a specification: each is the
operator that follows it with a plausible bug, kept to confirm that the property
named beside it in PROJECT.json notices the bug.

### DHCPClient and DHCPService

`run` says where the thread is; its values follow `run()` line by line:
`test` (6), `resolving` (8), `answered` (9-24), `callback` (25), `notify` (27),
`check` (28), `prewait` (between the test and the wait, where a notification is
lost), `waiting` (31). `pc[c]` is the same for a caller inside `start()` or
`stop()`. `running_mutex` names its holder. A `wait_for` is two steps: it begins
(`StartWaits`, `StopWaits`, `EnterWait`), and it ends because it was notified
(`NotifyTrigger`, `StopNotifies` move the waiter) or because it timed out or
woke up spuriously (`StartTimesOut`, `StopTimesOut`, `TimerExpires`). An offer
is a model value; `BadOffers` are those whose lease `std::stoi` rejects. An
exception that leaves the thread sets `crash`, after which nothing happens.
(`ResolverNotRun` is the one of a `popen` that fails, `Parse` and
`CallbackThrows` have the others.) `triggerIPCheck` is modelled where `stop()` calls it; nobody else does. The
callback that the thread calls is one step here; the controller splits it.

`DHCPService` has neither thread nor mutex: a client is active between the
effect of a start and the effect of the next stop, delivers only while it is
active, and a stop returns with it inactive. The mapping takes a client to be
active while its thread object stands for a thread (`run # "none"`), so a stop
takes effect at its join.

### EthernetController

`SetStatic` enters `stop()`, `UseDHCP` enters `start()`; `InsideClient` is a
step inside either, and a `setStatic` that comes out of `stop()` goes on to
`configureInterface`, whose three assignments are separate steps (`setIP` may
throw before the assignment, because it executes `ifconfig` first). The client's
thread goes through the same steps between `CallbackBegins` and
`CallbackSetDNS`. A field holds the name of who set it. `overlapped` is a
history variable: two executions of `configureInterface` were under way at once.

### PingInternetSwitcher

`run` follows `Run()`: copy the list, pick, add the host route to 8.8.8.8, ping,
drop the route, and if the answering interface is not the current one drop the
default route, add the new one, add the MASQUERADE rule, append the DNS servers,
make dnsmasq read them, sleep. `NetworkFactory::addRoute` never finds an older
`Route`, because `getWeakElement` takes the registry by value, so each call is a
new object: `ping_route` and `default_gw` hold the gateway of the object, and
`kernel` what the main table has for each destination. The environment moves
uplinks (`Uplink`), readdresses interfaces (`Readdress`, then `SetGW`, as
`configureInterface` does), and kills the process (`Kill`), which leaves
`kernel` and `masquerade` as they are.

Destructors do not mind that their commands fail. `Delete` is the command of
`~Route`: it may leave the route, which `undeleted` remembers as `leftover`
remembers the routes of a killed process. `MembersDestroyed` runs `iptables -D`
for each rule of the chain, and `stray` are the rules that nobody will delete any
more, since that failed or since their process was killed. Where `CommandsFail`
is FALSE only a killed process leaves anything. `dns_file` is the process's own
file: that a killed process leaves one is modelled in `DHCPServer`, whose files
have names. `failed` is a history variable.

### RoutingSpecializer

An object is known by the value its constructor counted, unique because it
counts before it can fail. A constructor has two steps: `Prepare` counts and
makes the rule, the ipset and the route of its own table (lines 17-22); `Create`
makes the marking rules (lines 24-31), whose mark is what the static counter
holds by then. In between other threads count, create, fail and destroy;
`building` is the `routing_table_id` of the constructor that a client is in, and
`overtaken` remembers those in whose middle somebody counted. The ways it ends
are `PrepareFails`, an exception whose undoing may fail in its turn; `RuleFails`,
an exception that may leave a rule in a chain that other objects hold;
`CreateMeetsExpiredChain`, a null pointer dereferenced because `Table::getChain`
returns the lock of an expired `weak_ptr`; and `Create`.

Threads that configure one interface share its `IPSet`, which has no lock, so its
methods are taken apart: `Flush` (`ipset flush`) and `Clear` (`ips.clear()`), then
for each address `AddIP` (the test of `ips` and `ipset add`) and `Push`
(`push_back`), or `SkipIP` if the list has it or the command fails. `adding[c]` is
what is in the ipset and will be recorded. If one thread adds between another's
flush and clear, or flushes between another's add and record, list and ipset
differ for good: `torn` remembers these objects. Two threads in the vector at once
are undefined and may end the process (`ListRace`).

`Destroy` runs the members' destructors (`Releases`): the chains delete their
rules only with their last owner, and `ipset destroy` fails unnoticed while a rule
names the set. None of them minds that its command fails: any of the rules and the
ip rule, the ipset and the table's route may stay. `left` remembers what a
destructor tried to delete in vain, `disowned` the rules that no `ChainRule` will
delete any more: left by a destructor, or pushed out under an id of which an
increment was lost (`PushedOut`; how that happens is in `XTables`). `SetIP` drops
the routes over a readdressed interface from the tables (`moved`). `MaxFailures`
bounds the steps in which something fails that need not: a command, the counting
of ids, or such a route.
Objects are dropped where the last `shared_ptr` goes, which depends on what the
other clients hold.

### NetworkManager

`main` (the variable) follows `main()`: `load`, `configure`, `exec`, `add` for
each section of the INI file, `sigwait`, then the destructor of the web
configurator (`close`, `clear`, `join`: lines 326-333), its map of plugins
(`free`) and the libraries (`unload`). A plugin is one model value for its
section, its object and its library; `alive` has the objects, `held[c]` is the
`shared_ptr` that a client's thread copies before it calls the plugin.
`acceptor` follows `AccpetingThread`; its `blocked` is an `accept()` that is in
the kernel, which `close()` of the socket does not wake. `client[c]` goes from
`away` through the backlog (`queued`) to the places of `ClientThread`.
`HangUp` is the `read()` of a closed connection, after which `readRequest` loops
for ever. Where the code would use the destroyed configurator or an unloaded
library (undefined), terminates on an exception (`ReadMalformed`, `PageThrows`,
`LoadFails`) or is killed by SIGPIPE (`SendFails`), `crash` names the reason and
nothing happens after it. `Impatient` clients hang up.

### DHCPResolver

The vendored client is a daemon; in this tree `pt_recvmessage_dhcp` prints the
first answer and calls `exit(0)` (dhcpprotocol.c:369), so of its states only
`REBOOTING`, `OPER_DOWN`, `INIT` and, on its way out, `REQUESTING` are reached.
`pc[r]` follows `main`: the interface is looked up, the pid file opened and
locked, the first state entered, the loop, the unlink. `select` may return for
any of its sources, so netlink messages (`News`), timeouts and frames are
separate actions; frames are read in any order, which includes theirs. A frame
is the body of an answer to the last transaction number, or `Foreign`, which a
new number makes of the frames that still wait. `first` is the first line
printed, the only one that `DHCPClient` reads an address from. The lock is the
kernel's: it belongs to the inode (`file[r]`), not to the path, and goes with
the process. SIGHUP has no effect in the states that are reached; SIGKILL leaves
what `exit(0)` leaves, and is not a step of its own.

### DHCPServer

`pc[c]` follows a thread through `setDHCPServer`: `Call` is
`createConfiguration` with the checks of the constructor; at `add`, under
`dnsmasq_mutex`, `addConfiguration` makes an object (`Create`, which truncates
the file), shares the one that lives (`Share`), or dereferences the lock of an
expired weak pointer (`Expired`, a crash). For each of the two lines there is a
`Push` and a `writeConfiguration` in two steps, `Truncate` and `Fill`, with
`file_mutex` held in between; then `Reload`, and in `Assign` the controller's
`shared_ptr` is replaced, whereby the old object may go with its file, of which
dnsmasq is not told. The switcher may have dnsmasq reload at any moment
(`ReloadElsewhere`), and it then finds the files as they are: a file that is
being written counts as empty or complete.

An object is known by the first address of its range, which is its name in the
registry and, with a directory before it, its file: a process makes at most one
for each name, because a name that has died cannot be made again. `text[n]` is
the file, `lines[n]` what the object has, `loaded[n]` what dnsmasq has read,
`present` the files that exist. `push_back` takes no lock: two at once lose a
line (`PushLost`) or end the process (`Race`); `raced` remembers such objects,
of which nothing is claimed. `Stop` runs the destructors, `Dies` runs none and
leaves the files to the next `Start`; dnsmasq is another process and goes on
serving. `Served` is the conversion of the lease: whole hours above 3600 seconds,
else whole minutes.

### INIFileConfigurator

`at[c]` is the place in `configure()`: `open` between the assignment of
`file_name` and the reading of the file it names by then, `next` at the head of
the loop, `range` between `setStatic` and `setDHCPServer`, `server` inside the
latter, whose steps are those of `DHCPServer` (`InServer`). `setStatic` and
`useDHCP` are one step here, since `EthernetController` has theirs. A section is
a record: the interface it names, `static` if it has an address and `dhcp` if
not, and the range if there is one; its lease is a long and becomes an unsigned
int (`Asked`). An exception (`OpenFails`, `CallFails`, `Refused`) leaves what
earlier sections did. `Boot` is `NetworkFactory::start`, which looks for
interfaces once. `alone` is a history variable: the last `configure()` had no
other beside it and has not thrown.

### XTables

An owner is a `TrafficSpecialization` or a switcher with the thread that calls
for it. `Share`, `Miss` and `Make`, `Expired` are the three ways through
`getChain`; two threads that miss a name at once make two Chains, or crash in
the map (`Race`). `addRule` holds the mutex of its Chain from `AddRule` to
`Store` or `Fails`: iptables, the insertion under the id (`Insert`; C++11 leaves
open whether the id is read before or after iptables runs), the load and the
store of `rule_id++`. The counter is static, so threads in other chains are not
kept away; `lost` remembers that an increment was lost. `Drop` is the end of an
owner and of the Chains that nobody else has. A rule is the number of its
`addRule`, so equal rules are told apart; `stuck` are those that `iptables -D`
failed to remove.

## 3. Runs

| run | instance | what it shows |
|---|---|---|
| `client` | 3 callers, 2 good offers, 1 bad | `ThreadOwned`, `NoUseAfterDestruction`, `NeverOverwritesThread`, the inductive `ClientInv`, the refinement of `DHCPService`, and `MutexReleased`, `LeaseRenewed`, `DestructorReturns` in spite of lost notifications |
| `controller` | 2 callers (symmetric), 2 good offers, 1 bad | `NoDHCPBehindStop`, `NoTornConfiguration`, `ControllerInv` |
| `switcher_safety` | 2 interfaces, both orders of the list, 2 router addresses (symmetric), readdressing of one interface, failing commands, 1 kill, `running` initially anything | `RouteOwned`, `CleanAfterDestructor`, `HigherPrioritiesFailed`, the inductive `SwitcherInv` |
| `switcher_calm` | 2 interfaces, two lists of opposite order, one with an unknown name, no readdressing, no failing command, no kill | `Switches` (convergence), `SetupMatchesCurrent`, `DestructorReturns` |
| `switcher_readdress` | one list, readdressing of one interface | `Switches` is violated |
| `routing_safety` | 2 clients (symmetric), 2 interfaces and an unknown name, 1 destination, 3 marks, 1 step that fails, readdressing of one interface | `LiveIsComplete`, `OnePerInterface`, `MarksAgree`, the refinement of `SharedObjects`, the inductive `RoutingInv` (with `ReferencesLive`, `FillInv` and `NothingLeaks`) |
| `routing_splits` | 1 client, nothing fails | `Splits` is violated |
| `manager` | 3 clients, of which 1 may hang up, 2 plugins | the refinement of `SharedObjects` (`SharesPlugins`), `NoClientBehindDestructor`, `ManagerInv`, `RequestsAnswered`, `Terminates` |
| `resolver` | 2 processes, 1 offer and stray and foreign answers, 2 inodes, 1 netlink message in flight | `StartedOnceUntilUnlink`, `OutputIsRequested`, `Resolves`, `ResolverInv` |
| `resolver_unlink` | 3 processes, a link that does not change | `StartedOnce` is violated |
| `configurator` | 2 threads (symmetric), 3 interfaces, 2 files of 3 sections each, 2 names with 4 ranges, 2 lives of the process | `GrantedServed`, `FileApplied`, `ConfiguratorInv` |
| `xtables` | 3 owners, of which 2 (symmetric) share a chain and 1 has one in another table, 4 rules | `RulesKept`, `XTablesInv` (with `RulesGo`) |

Bounds. Three callers are one inside a method, one that waits for the mutex and
one that arrives when it is free; a fourth repeats one of them. Two callers are
enough for two overlapping writers beside the DHCP thread. Two interfaces give a
better and a worse source, two addresses an old and a new gateway. Three marks
allow an object that lives, one that is created and one that replaces it; the
requests of `routing_safety` are one that gives an address to a and to b, and
one that asks for a name that is no interface, after which both objects go; every
client goes through the names in the order of the `std::map` (`Rank`). One
destination is enough for an address that is in one of list and ipset only. One
failing step falls on any command of any step, and on several commands of that
step; a second one is beyond what TLC can finish in minutes, and is covered by the
proofs, which hold for any `MaxFailures`. Three
clients of the web server are one in a plugin, one that hangs up and one that
waits; two plugins are one that is in use and one that is not. Two resolvers
compete for a pid file, and the third of `resolver_unlink` is the one that its
race needs; two inodes are the file that was removed and the one that replaces
it. Four rules are what a lost increment needs to do harm: two that count on,
one that takes the counter back and one that takes a place. Of the two files of
`configurator` the first gives a the name `n1`, the second gives `n2` to a and to
b, so that objects are shared, expire and are met again; one range is refused (a
lease of 60 seconds), one lease is negative, one section names no interface; a's
`ifconfig` may fail and the first file may be missing (`Fallible`); a process
that dies and the one that finds its files are two lives. `Width`
stands for 2^32 with 65536, which keeps the arithmetic inside TLC's integers: a
lease of -1 becomes the largest value either way. `MaxKills`, `MaxMark`,
`MaxFailures`, `MaxNews`, `MaxStarts` and `MaxRules` are the only counters; the theorems hold
for any value of them. Symmetry is used in `controller`, `switcher_safety`,
`routing_safety`, `configurator` and `xtables`, which check safety only. Deadlock is not checked
where the system may stop for good: the client is destroyed, the process has
returned or crashed for the last time, or every mark is used.

### Violations

- `switcher_readdress`: when DHCP gives the current interface another gateway,
  the switcher's next passes find the interface's ping answered and its name
  equal to `current_interface`, and leave the default route over the old router.
- `routing_splits`: three calls of `configure()` (a, then b, then a) leave a
  without its specialization, because a's rules stay in the chains that b holds
  and its ipset can be neither destroyed nor created again.
- `resolver_unlink`: a process that ends removes the pid file by name. One that
  opened it before that, and locks it after, holds the lock of a file without a
  name, and the next one creates and locks another: two daemons on one
  interface, which `CHANGES:34-35` excludes.

Four more cases are no runs of their own. `PingInternetSwitcher::running` is a plain
`bool` that neither the constructor nor the class initialises; with
`Garbage = {TRUE, FALSE}` in `Switcher_calm.cfg` TLC finds `Switches` violated at
once, since `exec()` starts nothing if the memory holds true. And `RulesKept`
without its first condition fails with the four rules of `xtables`: while one
thread is between the load and the store of `rule_id++`, others count on, and
the store takes the counter back, so that a later rule takes the place of one
that its owner still needs. And `LiveIsComplete` without `m \in overtaken` fails
in `routing_safety`: a client prepares the table of interface a, another counts
and prepares that of b, and then the rules of a are made with b's mark, so that
the packets for a's destinations leave over b for as long as the object lives.
And `LiveIsComplete` without `m \notin torn` fails there too: a client flushes the
ipset of a while another, which has added an address, is about to record it, so
that `getConfiguration` reports an address whose packets do not leave over a.

Crashes that the code really has (a lease that `std::stoi` rejects, an exception
out of the DHCP thread, an expired chain, a page for a plugin whose id is no number, a client that resets its connection, an expired configuration of dnsmasq,
two threads in one vector) are outcomes in the models, and the
invariants hold up to them.

### Fairness

- `DHCPClient`: the thread and each caller that holds `running_mutex`, or is in
  the destructor, goes on if it can; timed waits end; dhcpresolver exits. The
  last is an assumption about the network that the ToDo in line 8 names:
  without an answer dhcpresolver may run for ever, and `stop()` with it.
  Nothing is assumed of the order in which the mutex is granted, so no property
  says that a given `start()` returns.
- `PingInternetSwitcher`: the thread goes on (its ping and its sleep are bounded
  by one second each), `main` calls `exec()`, the destructor's join returns when
  the thread has ended, and `setGW` follows `setIP` in `configureInterface`.
- `NetworkManager`: main and the threads go on; the backlog of a socket is a
  queue, so a connection that waits while `accept()` is called again and again is
  taken (strong fairness per client); the clients that do not hang up come back.
  The last is an assumption about the environment that `Terminates` needs,
  because nothing in the code wakes a blocked `accept()`. No signal is promised.
- `DHCPResolver`: processes go on, `select` does not pass over a netlink message
  or a timeout for ever, and who asks for ever over a link that is up is made an
  offer, and one of the offers is read before the next timeout. The last two are
  assumptions about the network; `Resolves` claims nothing for a link that keeps
  changing.

## 4. Theorems

The proofs assume what the modules' named ASSUMEs say (that `None` is not a
caller, offer or interface, that offers and callers differ, that lists are
sequences of names and the like) and nothing about the number of threads,
interfaces, lists or marks.

- **DHCPClient** (`ClientInvariant`). The inductive invariant `ClientInv` ties
  the flag, the mutex and the thread together: while the mutex is free `running`
  says exactly whether there is a thread; a method that holds the mutex knows
  the value of `running` and that the thread exists; the destructor is alone.
  `ThreadOwned` and the others follow by cases on who holds the mutex. It is
  needed because `ThreadOwned` alone says nothing of a `stop()` between the
  clearing of the flag and the join. `ClientImplementsService` shows that each
  step maps to a step of `DHCPService` or to a stutter.
- **EthernetController** (`ControllerInvariant`). Every step of the controller
  is a step of the client or leaves it alone, so `ClientInv` is inherited
  (`ControllerImplementsClient`). `WritingInv` and `Consistent` say what has been
  written at each point of `configureInterface`; from them `NeverTorn` and
  `StopSilencesDHCP` (an action property).
  `NeverTorn` leaves out the states behind two executions of
  `configureInterface` that overlapped; `LockedIsWhole` has no such exception and
  assumes instead that they never overlap.
- **PingInternetSwitcher** (`SwitcherInvariant`, for `RouteInv`, `PassInv`,
  `SourceInv` and `LeftoverInv`; `CalmSetupInvariant`). `RouteInv` says which steps of the thread hold a
  route and what each stage of the object's life leaves behind; `PassInv` what
  the loop has been through (`PrioritiesRespected`); `SetupInv` what each step
  of a set-up finds, under the assumptions that addresses stay, commands succeed
  and the flag starts false (`CalmSetupMatches`). That the host route to 8.8.8.8
  is there only during its ping is proved (`ProbeAlwaysTransient`) and follows
  from what `switcher_safety` checks, as `SetupInv` is proved and stands behind
  what `switcher_calm` checks.
  `SourceInv` says that gateways are those of their interfaces and that
  `default_gw` is one of the interface that `current_interface` names; with it
  `DefaultIsCurrent`: whatever fails half way, the default route never leads
  over another interface, unless a failing `ip route del` or a killed process left
  it. `DestructorCleans` excepts, in the same way, what a command failed to delete
  (`undeleted`, `stray`), and nothing where commands succeed. (It may lead over an old gateway of the right one,
  which is `switcher_readdress`.) `LeftoverInv` says how far the thread gets where
  a killed process left a route, and `LeftoverAlwaysBlocks` that this is never
  far enough to choose a source.
- **RoutingSpecializer** (`RoutingInvariant`). Marks are never reused, a rule's
  ipset exists, and a client drops only what nobody else refers to (`DropInv`):
  without the last an object could be destroyed under another client's map.
  `BuildInv` says that a constructor between its steps has its table and its
  ipset for itself, and that no other client builds for the same interface.
  `FillInv` says that of an object whose list and ipset go together nobody is
  between a flush and a clear while somebody is between an add and its record:
  then they differ by `adding` and by what is about to be cleared, which
  `LiveIsComplete` states. `EntryInv` says that `configure()` overwrites no pointer
  of its own map, which `NothingLeaks` needs; `NothingIsLost` is that what is in the
  kernel without an owner is in `left`, that is, what a destructor tried to delete
  and its command failed. `RoutingImplementsSharedObjects` maps each step to one of
  `SharedObjects` or to a stutter. Two theorems are about the exceptions of
  `LiveIsComplete`. `AloneLeadsToOwnTable`: where no thread enters a constructor
  while another is in one, the marking rules of every object lead to its own table
  (or were given up). `AloneIsReported`: where no thread flushes an ipset to which
  another one is adding, `getConfiguration` reports what an ipset has whenever
  nobody is in the middle of changing it.
- **NetworkManager** (`ManagerInvariant`). `LoadInv`: plugins are loaded before
  anybody is served. `HeldInv`: a plugin exists exactly as long as the map, main
  or a client's thread refers to it. `ShutdownInv`: the order in which main takes
  things down. `PluginInUseAlive` alone is not inductive, since a thread that
  returns from a plugin drops it if nobody else has it. `PluginsShared` is the
  refinement of `SharedObjects`. The models' crashes "destroyed" and "unloaded"
  can be reached, since the threads of clients are detached; `WaitingIsEnough`
  assumes that the destructor's join returns only when no client is served
  (`DestructorWaits`) and proves that then neither can: `DoorShut` keeps others out, and the configurator goes before the libraries.
- **DHCPResolver** (`ResolverInvariant`). `LockInv`: until somebody removes the
  pid file, whoever has one open has the one the path names, and locked files
  differ. `LinkInv`: the last of a process's netlink messages is the link, and
  its state follows the ones it has read. `OfferInv`: an answer that a process
  takes for its own is to its last message. `LockExcludes` and `RequestedOutput`
  follow. `StartedOnce` is violated in `resolver_unlink`; `ApartStartsOnce` proves
  it from the hypothesis that no process unlinks the path while another is
  between its `open` and its `flock` (`UnlinksApart`), so this window is all that
  is wrong: signals, links that are shut and any number of processes do no harm.
- **DHCPServer** (`ServerInvariant`). `FilesOwned`: files are those of the live
  objects and of dead processes (`FilesAlwaysOwned`). `HoldInv`: who holds an
  object, and that live ones are in the registry. `TextInv`: a file that nobody
  writes has its object's lines, and dnsmasq has read them unless somebody is
  about to tell it. `PushedInv`: what was pushed stays. `GrantedAlwaysServed`
  needs the last two, since `GrantedServed` says nothing of a thread on its way.
  `LeaseKept`, about the pure conversion: the lease that is written for an
  accepted one is at least 120 seconds, at most the one asked for, and more than
  half of it. `ConfigurationsShared` is the refinement of `SharedObjects`, and
  `SpentForGood` what follows from it for the registry: a first address whose
  object is gone is never served again by this process. `SerialServes` assumes
  one thread in `setDHCPServer` at a time and has neither the exception for
  `raced` objects nor a step that is undefined.
- **INIFileConfigurator** (`ConfiguratorInvariant`). Every step is a step of the
  server or leaves it alone (`ConfiguratorImplementsServer`: the configurator's
  specification implies the server's), so what is proved of the server holds in
  it. `ReadingInv`: where a thread is in its file and what it has asked for.
  `AloneInv`: one that is alone has applied every section that it is through
  with, up to the file that dnsmasq has yet to read; with `TextInv` that gives
  `FileAlwaysApplied`.
- **XTables** (`XTablesInvariant`). `LockInv`: who is in `addRule` has its
  Chain's mutex alone. `OwnInv`: a rule is of one Chain and under one id, and an
  owner's rules are of Chains that it has. `IdInv`: as long as no increment was
  lost the ids of a Chain are below the one that is about to be used, so nothing
  is pushed out. `RulesAlwaysGo` holds for lost increments as well: a rule that
  is pushed out is removed. `SerialAddsKeepRules` and `OneChainKeepsRules` prove
  that rules stay, without the exception for a lost increment, where one owner at
  a time is in `addRule`, or where there is one Chain at a time, whose mutex is
  then enough.

Theorems with a hypothesis about the steps (`LockedIsWhole`,
`AloneLeadsToOwnTable`, `AloneIsReported`, `WaitingIsEnough`, `ApartStartsOnce`, `SerialServes`,
`SerialAddsKeepRules`, `OneChainKeepsRules`) say what the code does not guarantee
and what would be enough for it: where the code violates a property, or a property
has an exception, they show that the exception is the only one. Each hypothesis is
met by the behaviours in which threads come one after the other (`OneChain` by a
process with the switcher alone), and none of these theorems is a claim about what
the code guarantees by itself.

Invariants and action properties that the runs check are all proved, with the
properties that are violated as the exception. Only model-checked are the liveness
properties (`MutexReleased`, `LeaseRenewed`, `DestructorReturns`, `Switches`,
`RequestsAnswered`, `Terminates`, `Resolves`), since fairness and ENABLED are
outside what the prover handles. No module uses a RECURSIVE operator.

## 5. Not modelled

- Data races that are undefined behaviour in C++: two `configure()` on one
  `std::map`, the unguarded `running` flags, `mark++` itself (that the counter is
  read again later is modelled). Reads and writes are taken to be atomic. In `RoutingSpecializer`, `DHCPServer`, `INIFileConfigurator` and
  `XTables` the races on a vector, a `shared_ptr`, a string, a map and the counter
  of ids are modelled, by a lost line, a lost increment or the end of the process (in
  `RoutingSpecializer` only the last);
  what else a compiler could make of them is not.
- What a web request or a page says.
- `DNSMasqConfiguration::replaceConfiguration`, which nobody calls; the order
  and the repetition of lines in a file, which dnsmasq does not mind; a file
  that cannot be opened or is read when it is partly written.
- inih, the vendored parser: a file is the list of its sections.
- The states of dhcpresolver behind its first answer, which are not reached, and
  netlink messages lost to a full buffer.
- `WirelessController` and `HotSpotController`, which the build leaves out.
- `System`, `Logger`, `ElapsedTime`, `IP`: wrappers; the outcomes of
  their calls are choices of the callers.
- Durations: a timed wait may end at any moment. That the lease is uninitialised
  before the first offer changes how long the client sleeps and nothing else.

## 6. Plan

Done, in this order: `DHCPService`, `DHCPClient`, `EthernetController`,
`PingInternetSwitcher`, `RoutingSpecializer`, `NetworkManager`, `DHCPResolver`,
`DHCPServer`, `INIFileConfigurator`, `XTables`, each with its inductive invariant proved.
To do:

1. `NetworkFactory`'s registries with a key and weak pointers as an abstract
   specification (at most one object per key), and the registry by value as an
   implementation that does not refine it.
2. The Chains of `XTables` as another implementation of `SharedObjects`: two
   threads may make one name's at once, so it needs a history of those made.
3. The composition of `INIFileConfigurator` with `EthernetController`, where a
   DHCP answer arrives while another thread applies a file.
